---- MODULE Spec2Model ----
(***************************************************************************)
(* A model of the chess rules engine of chess_lib (src/chess_lib/src/      *)
(* lib.rs): the Game struct, its FEN codec, the pseudo-legal move          *)
(* generator, the cached attacked squares, the make/undo legality filter,  *)
(* move application and the game-state classifier.                         *)
(*                                                                         *)
(* Rust values are modelled as follows.                                    *)
(*   Option<T>        None is <<>>, Some(x) is <<x>>                       *)
(*   (usize, usize)   the tuple <<i, j>>, i the rank index, j the file     *)
(*   Vec<T>           a sequence; the attacked-square vectors, which the   *)
(*                    code only reads through contains(), are sets         *)
(*   &str / String    a sequence of one-character strings                  *)
(*   Result / panic   a record with the value and the flags err / panic    *)
(***************************************************************************)
EXTENDS Integers, Sequences, FiniteSets, TLC

VARIABLES
    game,       \* the Game object the caller owns
    script,     \* the construction string and the calls the caller draws from
    played,     \* the accepted moves that are not undone, oldest first
    result,     \* the last operation called and what it returned
    aborted     \* TRUE once an operation has panicked

vars == <<game, script, played, result, aborted>>

(***************************************************************************)
(* Bounds of the model.                                                    *)
(***************************************************************************)
MaxMoves == 5

(***************************************************************************)
(* Option, Color, PieceType, Piece.                                        *)
(***************************************************************************)
None == <<>>
Some(x) == <<x>>
is_some(o) == o # <<>>
is_none(o) == o = <<>>
unwrap(o) == o[1]

Color == {"White", "Black"}

PieceType == {"Pawn", "Knight", "Bishop", "Rook", "Queen", "King"}

Piece(piece_type, color) == [piece_type |-> piece_type, color |-> color]

opposite(color) == IF color = "White" THEN "Black" ELSE "White"

Idx == 0..7
Squares == Idx \X Idx

\* the squares in the order of the code's "for i in 0..8 { for j in 0..8" scans
ScanOrder == [k \in 1..64 |-> <<(k - 1) \div 8, (k - 1) % 8>>]

is_valid_pos(i, j) == i >= 0 /\ i <= 7 /\ j >= 0 /\ j <= 7

\* A usize is written <<q, r>> for q * 2^31 + r with r < 2^31, so that the
\* conversion `i as i32` keeps its width; usize_of(n) is the index n of a square
usize_of(n) == <<0, n>>

\* `v as i32`: the low 32 bits, read as a signed number
usize_as_i32(v) == IF v[1] % 2 = 1 THEN (v[2] - 2147483647) - 1 ELSE v[2]

\* from and to are pairs of usize
is_valid_move(from, to) ==
    /\ is_valid_pos(usize_as_i32(from[1]), usize_as_i32(from[2]))
    /\ is_valid_pos(usize_as_i32(to[1]), usize_as_i32(to[2]))

\* A u32 is held as its 32 bits read in two's complement: n < 2^31 as itself,
\* n >= 2^31 as n - 2^32, so that u32::MAX is -1 and 2^31 is -2^31.
u32_MAX == -1

\* the number after n in the 32 bits, 0 after u32::MAX
u32_wrapping_succ(n) ==
    IF n = u32_MAX THEN 0
    ELSE IF n = 2147483647 THEN (-2147483647) - 1
    ELSE n + 1

\* `n >= m` between u32s, m below 2^31
u32_ge(n, m) == n < 0 \/ n >= m

\* `n += 1` on a u32: with overflow checks compiled in (cargo's debug profile)
\* the sum past u32::MAX panics, without them (the release profile) it wraps
u32_add_one(n, overflow_checks) ==
    [ value |-> u32_wrapping_succ(n),
      panic |-> n = u32_MAX /\ overflow_checks ]

\* the 16-bit halves <<high, low>> of a u32
u32_halves(n) ==
    IF n >= 0 THEN <<n \div 65536, n % 65536>>
    ELSE <<((n + 2147483647) + 1) \div 65536 + 32768, ((n + 2147483647) + 1) % 65536>>

\* the u32 of the 16-bit halves
u32_of_halves(h) ==
    IF h[1] < 32768 THEN h[1] * 65536 + h[2] ELSE (h[1] - 65536) * 65536 + h[2]

rook_move_directions == << <<1, 0>>, <<-1, 0>>, <<0, 1>>, <<0, -1>> >>

bishop_move_directions == << <<1, 1>>, <<1, -1>>, <<-1, 1>>, <<-1, -1>> >>

queen_move_directions ==
    << <<1, 0>>, <<-1, 0>>, <<0, 1>>, <<0, -1>>, <<1, 1>>, <<1, -1>>, <<-1, 1>>, <<-1, -1>> >>

knight_move_directions ==
    << <<2, 1>>, <<2, -1>>, <<-2, 1>>, <<-2, -1>>, <<1, 2>>, <<-1, 2>>, <<1, -2>>, <<-1, -2>> >>

insufficient_material ==
    { <<"King">>,
      <<"King", "Knight">>, <<"Knight", "King">>,
      <<"King", "Bishop">>, <<"Bishop", "King">>,
      <<"King", "Knight", "Knight">>, <<"Knight", "King", "Knight">>,
      <<"Knight", "Knight", "King">> }

\* The fields of Game, and with them overflow_checks, which is no field of the
\* struct: it records the build that runs, whether `+= 1` on a u32 panics past
\* u32::MAX (cargo's default, the debug profile) or wraps (the release profile)
new_empty ==
    [ board |-> [sq \in Squares |-> None],
      turn |-> "White",
      kingside_castle |-> [White |-> TRUE, Black |-> TRUE],
      queenside_castle |-> [White |-> TRUE, Black |-> TRUE],
      en_passant_square |-> None,
      half_moves |-> 0,
      full_moves |-> 0,
      previous_state |-> None,
      white_attacked_squares |-> {},
      black_attacked_squares |-> {},
      captures |-> <<>>,
      promotion_square |-> None,
      overflow_checks |-> TRUE ]

(***************************************************************************)
(* Pseudo-legal move generation.                                           *)
(***************************************************************************)
\* which colored pawn may capture en passant onto rank index i
can_en_passant(i) ==
    IF i = 2 THEN Some("White") ELSE IF i = 5 THEN Some("Black") ELSE None

get_attacked_squares(g, color) ==
    IF color = "White" THEN g.white_attacked_squares ELSE g.black_attacked_squares

\* one direction of directional_pseudo_legal_moves: the body of its while loop,
\* entered with moves_made steps already taken and the cursor on (i_m, j_m)
RECURSIVE slide(_, _, _, _, _, _, _, _)
slide(board, piece_color, i_m, j_m, direction, moves_made, max_moves, include_all_attacked) ==
    IF moves_made >= max_moves THEN <<>>
    ELSE LET i_n == i_m + direction[1]
             j_n == j_m + direction[2]
         IN  IF is_valid_pos(i_n, j_n)
             THEN LET occ == board[<<i_n, j_n>>]
                  IN  IF is_none(occ)
                      THEN << <<i_n, j_n>> >> \o
                           slide(board, piece_color, i_n, j_n, direction,
                                 moves_made + 1, max_moves, include_all_attacked)
                      ELSE IF unwrap(occ).color = piece_color
                           THEN (IF include_all_attacked THEN << <<i_n, j_n>> >> ELSE <<>>)
                           ELSE << <<i_n, j_n>> >>
             ELSE slide(board, piece_color, i_n, j_n, direction,
                        moves_made + 1, max_moves, include_all_attacked)

RECURSIVE slide_all(_, _, _, _, _, _, _, _)
slide_all(board, piece_color, i, j, directions, k, max_moves, include_all_attacked) ==
    IF k > Len(directions) THEN <<>>
    ELSE slide(board, piece_color, i, j, directions[k], 0, max_moves, include_all_attacked) \o
         slide_all(board, piece_color, i, j, directions, k + 1, max_moves, include_all_attacked)

\* directional_pseudo_legal_moves stopping short of an own piece in either mode
directional_moves_only(g, i, j, directions, max_moves, include_all_attacked) ==
    slide_all(g.board, unwrap(g.board[<<i, j>>]).color, i, j, directions, 1,
              max_moves, FALSE)

directional_pseudo_legal_moves(g, i, j, directions, max_moves, include_all_attacked) ==
    slide_all(g.board, unwrap(g.board[<<i, j>>]).color, i, j, directions, 1,
              max_moves, include_all_attacked)

pawn_can_capture(g, i, j, pawn_color) ==
    IF is_some(g.en_passant_square)
    THEN /\ unwrap(g.en_passant_square) = <<i, j>>
         /\ can_en_passant(i) = Some(pawn_color)
    ELSE /\ is_some(g.board[<<i, j>>])
         /\ unwrap(g.board[<<i, j>>]).color # pawn_color

\* pawn_pseudo_legal_moves without the advance of two squares
pawn_single_step_only(g, i, j, only_attacked) ==
    LET pawn_color == unwrap(g.board[<<i, j>>]).color
        d == IF pawn_color = "White" THEN -1 ELSE 1
        i_indx == i + d
        front == IF is_valid_pos(i_indx, j) /\ is_none(g.board[<<i_indx, j>>])
                 THEN << <<i_indx, j>> >>
                 ELSE <<>>
        right == IF is_valid_pos(i_indx, j + 1)
                    /\ (only_attacked \/ pawn_can_capture(g, i_indx, j + 1, pawn_color))
                 THEN << <<i_indx, j + 1>> >> ELSE <<>>
        left == IF is_valid_pos(i_indx, j - 1)
                   /\ (only_attacked \/ pawn_can_capture(g, i_indx, j - 1, pawn_color))
                THEN << <<i_indx, j - 1>> >> ELSE <<>>
    IN  IF only_attacked THEN right \o left ELSE front \o right \o left

pawn_pseudo_legal_moves(g, i, j, only_attacked) ==
    LET pawn_color == unwrap(g.board[<<i, j>>]).color
        d == IF pawn_color = "White" THEN -1 ELSE 1
        i_indx == i + d
        two == IF pawn_color = "White"
               THEN (IF i = 6 /\ is_none(g.board[<<4, j>>]) THEN << <<4, j>> >> ELSE <<>>)
               ELSE (IF i = 1 /\ is_none(g.board[<<3, j>>]) THEN << <<3, j>> >> ELSE <<>>)
        front == IF is_valid_pos(i_indx, j) /\ is_none(g.board[<<i_indx, j>>])
                 THEN << <<i_indx, j>> >> \o two
                 ELSE <<>>
        right == IF is_valid_pos(i_indx, j + 1)
                    /\ (only_attacked \/ pawn_can_capture(g, i_indx, j + 1, pawn_color))
                 THEN << <<i_indx, j + 1>> >> ELSE <<>>
        left == IF is_valid_pos(i_indx, j - 1)
                   /\ (only_attacked \/ pawn_can_capture(g, i_indx, j - 1, pawn_color))
                THEN << <<i_indx, j - 1>> >> ELSE <<>>
    IN  IF only_attacked THEN right \o left ELSE front \o right \o left

\* the castling half of king_pseudo_legal_moves for one wing: s is 1 for the
\* kingside (files j + 1, j + 2) and -1 for the queenside (files j - 1, j - 2).
\* An index outside 0..7 aborts the program where the code evaluates it.
castle_wing(g, i, j, king_color, s) ==
    LET attacked_squres == get_attacked_squares(g, opposite(king_color))
    IN  IF ~is_valid_pos(i, j + s) THEN [moves |-> <<>>, panic |-> TRUE]
        ELSE IF is_some(g.board[<<i, j + s>>]) THEN [moves |-> <<>>, panic |-> FALSE]
        ELSE IF ~is_valid_pos(i, j + 2 * s) THEN [moves |-> <<>>, panic |-> TRUE]
        ELSE IF is_some(g.board[<<i, j + 2 * s>>]) THEN [moves |-> <<>>, panic |-> FALSE]
        ELSE IF /\ <<i, j>> \notin attacked_squres
                /\ <<i, j + s>> \notin attacked_squres
                /\ <<i, j + 2 * s>> \notin attacked_squres
             THEN [moves |-> << <<i, j + 2 * s>> >>, panic |-> FALSE]
             ELSE [moves |-> <<>>, panic |-> FALSE]

king_pseudo_legal_moves(g, i, j, include_all_attacked) ==
    LET king_color == unwrap(g.board[<<i, j>>]).color
        move_vec == directional_pseudo_legal_moves(g, i, j, queen_move_directions, 1,
                                                   include_all_attacked)
        nothing == [moves |-> <<>>, panic |-> FALSE]
        kingside == IF g.kingside_castle[king_color]
                    THEN castle_wing(g, i, j, king_color, 1) ELSE nothing
        queenside == IF kingside.panic THEN nothing
                     ELSE IF g.queenside_castle[king_color]
                          THEN castle_wing(g, i, j, king_color, -1) ELSE nothing
    IN  [ moves |-> move_vec \o kingside.moves \o queenside.moves,
          panic |-> kingside.panic \/ queenside.panic ]

\* Ok(moves), or Err for a square off the board, or a panic
get_pseudo_legal_moves_for_square(g, i, j, only_attacked) ==
    IF ~is_valid_pos(i, j) THEN [moves |-> <<>>, err |-> TRUE, panic |-> FALSE]
    ELSE LET occ == g.board[<<i, j>>]
             t == unwrap(occ).piece_type
             ok(m) == [moves |-> m, err |-> FALSE, panic |-> FALSE]
         IN  IF is_none(occ) THEN ok(<<>>)
             ELSE CASE t = "Pawn" -> ok(pawn_pseudo_legal_moves(g, i, j, only_attacked))
                    [] t = "Rook" -> ok(directional_pseudo_legal_moves(
                                          g, i, j, rook_move_directions, 8, only_attacked))
                    [] t = "Bishop" -> ok(directional_pseudo_legal_moves(
                                          g, i, j, bishop_move_directions, 8, only_attacked))
                    [] t = "Knight" -> ok(directional_pseudo_legal_moves(
                                          g, i, j, knight_move_directions, 1, only_attacked))
                    [] t = "Queen" -> ok(directional_pseudo_legal_moves(
                                          g, i, j, queen_move_directions, 8, only_attacked))
                    [] t = "King" -> LET k == king_pseudo_legal_moves(g, i, j, only_attacked)
                                     IN  [moves |-> k.moves, err |-> FALSE, panic |-> k.panic]

Range(s) == {s[k] : k \in 1..Len(s)}

\* the squares holding a piece of the given color
occupied_by(board, color) ==
    {sq \in Squares : is_some(board[sq]) /\ unwrap(board[sq]).color = color}

\* the squares get_pseudo_legal_moves_for_square reports in attack-only mode for
\* the pieces of one color
attacks_of(g, color) ==
    UNION { Range(get_pseudo_legal_moves_for_square(g, sq[1], sq[2], TRUE).moves) :
            sq \in occupied_by(g.board, color) }

\* update_attacked_squares; of the generators it calls only the king's can abort
update_attacked_squares(g) ==
    [ game |-> [g EXCEPT !.white_attacked_squares = attacks_of(g, "White"),
                         !.black_attacked_squares = attacks_of(g, "Black")],
      panic |-> \E sq \in Squares :
                    /\ is_some(g.board[sq])
                    /\ unwrap(g.board[sq]).piece_type = "King"
                    /\ king_pseudo_legal_moves(g, sq[1], sq[2], TRUE).panic ]

(***************************************************************************)
(* Promotion, undo, move application, the legality filter.                 *)
(***************************************************************************)
\* helper of promote_to_piece: unwrap() of an empty square aborts
promote(g, indx, piece_type) ==
    IF is_none(g.board[indx]) THEN [game |-> g, panic |-> TRUE]
    ELSE [ game |-> [g EXCEPT !.board[indx] =
                         Some(Piece(piece_type, unwrap(g.board[indx]).color))],
           panic |-> FALSE ]

promote_to_piece(g, piece_type) ==
    IF is_some(g.promotion_square)
    THEN LET p == promote(g, unwrap(g.promotion_square), piece_type)
         IN  [ game |-> [p.game EXCEPT !.promotion_square = None],
               ret |-> TRUE, panic |-> p.panic ]
    ELSE [game |-> g, ret |-> FALSE, panic |-> FALSE]

\* undo_last_move that forgets to restore the capture log
undo_keeping_captures(g) ==
    IF is_none(g.previous_state) THEN g
    ELSE LET prev == unwrap(g.previous_state)
         IN  [g EXCEPT !.board = prev.board,
                       !.kingside_castle = prev.kingside_castle,
                       !.queenside_castle = prev.queenside_castle,
                       !.en_passant_square = prev.en_passant_square,
                       !.half_moves = prev.half_moves,
                       !.full_moves = prev.full_moves,
                       !.previous_state = prev.previous_state,
                       !.turn = prev.turn]

\* undo_last_move that forgets to restore the half-move clock
undo_keeping_clock(g) ==
    IF is_none(g.previous_state) THEN g
    ELSE LET prev == unwrap(g.previous_state)
         IN  [g EXCEPT !.board = prev.board,
                       !.kingside_castle = prev.kingside_castle,
                       !.queenside_castle = prev.queenside_castle,
                       !.en_passant_square = prev.en_passant_square,
                       !.full_moves = prev.full_moves,
                       !.previous_state = prev.previous_state,
                       !.turn = prev.turn,
                       !.captures = prev.captures]

undo_last_move(g) ==
    IF is_none(g.previous_state) THEN g
    ELSE LET prev == unwrap(g.previous_state)
         IN  [g EXCEPT !.board = prev.board,
                       !.kingside_castle = prev.kingside_castle,
                       !.queenside_castle = prev.queenside_castle,
                       !.en_passant_square = prev.en_passant_square,
                       !.half_moves = prev.half_moves,
                       !.full_moves = prev.full_moves,
                       !.previous_state = prev.previous_state,
                       !.turn = prev.turn,
                       !.captures = prev.captures]

is_promotion_move(g, from, to) ==
    IF is_valid_move(<<usize_of(from[1]), usize_of(from[2])>>,
                     <<usize_of(to[1]), usize_of(to[2])>>)
    THEN to[1] = (IF unwrap(g.board[from]).color = "White" THEN 0 ELSE 7)
    ELSE FALSE

\* rook_rights with the two wings exchanged
rook_rights_swapped(g, rook_color, sq) ==
    LET starting_rank == IF rook_color = "White" THEN 7 ELSE 0
    IN  IF sq[1] # starting_rank THEN g
        ELSE IF sq[2] = 0
             THEN [g EXCEPT !.kingside_castle[rook_color] = FALSE]
        ELSE IF sq[2] = 7
             THEN [g EXCEPT !.queenside_castle[rook_color] = FALSE]
        ELSE g

\* the castling flags after a rook of rook_color leaves, or is captured on, sq
rook_rights(g, rook_color, sq) ==
    LET starting_rank == IF rook_color = "White" THEN 7 ELSE 0
    IN  IF sq[1] # starting_rank THEN g
        ELSE IF sq[2] = 0
             THEN [g EXCEPT !.queenside_castle[rook_color] = FALSE]
        ELSE IF sq[2] = 7
             THEN [g EXCEPT !.kingside_castle[rook_color] = FALSE]
        ELSE g

\* make_move_with_index, "Check if castling" branch
king_move_effects(g, from, to) ==
    LET i1 == from[1]
        d == from[2] - to[2]
        king_color == unwrap(g.board[from]).color
        off == [g EXCEPT !.kingside_castle[king_color] = FALSE,
                         !.queenside_castle[king_color] = FALSE]
    IN  IF d # 2 /\ d # -2 THEN g
        ELSE IF d < 0
             THEN [off EXCEPT !.board[<<i1, 5>>] = g.board[<<i1, 7>>],
                              !.board[<<i1, 7>>] = None]
             ELSE [off EXCEPT !.board[<<i1, 3>>] = g.board[<<i1, 0>>],
                              !.board[<<i1, 0>>] = None]

\* the pawn branch without the removal of the pawn passed en passant
pawn_leaves_passed(g, from, to) ==
    LET d == from[1] - to[1]
        g1 == [g EXCEPT !.half_moves = 0]
        g2 == IF d = 2 \/ d = -2
              THEN [g1 EXCEPT !.en_passant_square = Some(<<(from[1] + to[1]) \div 2, from[2]>>)]
              ELSE g1
        g3 == IF is_promotion_move(g2, from, to)
              THEN [g2 EXCEPT !.promotion_square = Some(to)]
              ELSE g2
    IN  [game |-> g3, panic |-> FALSE]

\* make_move_with_index, pawn branch
pawn_move_effects(g, from, to) ==
    LET pawn_color == unwrap(g.board[from]).color
        d == from[1] - to[1]
        g1 == [g EXCEPT !.half_moves = 0]
        g2 == IF d = 2 \/ d = -2
              THEN [g1 EXCEPT !.en_passant_square = Some(<<(from[1] + to[1]) \div 2, from[2]>>)]
              ELSE g1
        g3 == IF is_promotion_move(g2, from, to)
              THEN [g2 EXCEPT !.promotion_square = Some(to)]
              ELSE g2
        behind == IF pawn_color = "White" THEN <<to[1] + 1, to[2]>> ELSE <<to[1] - 1, to[2]>>
    IN  IF is_some(g3.en_passant_square) /\ to = unwrap(g3.en_passant_square)
        THEN IF is_valid_pos(behind[1], behind[2])
             THEN [game |-> [g3 EXCEPT !.board[behind] = None], panic |-> FALSE]
             ELSE [game |-> g3, panic |-> TRUE]
        ELSE [game |-> g3, panic |-> FALSE]

\* capture_effects saving the position without the chain behind it
capture_effects_unchained(g, to) ==
    IF u32_add_one(g.half_moves, g.overflow_checks).panic
    THEN [game |-> g, panic |-> TRUE]
    ELSE IF is_some(g.board[to])
    THEN [ game |-> [g EXCEPT !.previous_state = Some([g EXCEPT !.previous_state = None]),
                              !.captures = Append(g.captures, unwrap(g.board[to])),
                              !.half_moves = 0],
           panic |-> FALSE ]
    ELSE [ game |-> [g EXCEPT !.previous_state = Some([g EXCEPT !.previous_state = None]),
                              !.half_moves = u32_wrapping_succ(g.half_moves)],
           panic |-> FALSE ]

\* make_move_with_index, "save board state" and "Capture logic": the clone, then
\* `self.half_moves += 1`, a u32 sum taken before the target square is looked
\* at, then the capture that logs the piece and resets the clock
capture_effects(g, to) ==
    IF u32_add_one(g.half_moves, g.overflow_checks).panic
    THEN [game |-> [g EXCEPT !.previous_state = Some(g)], panic |-> TRUE]
    ELSE IF is_some(g.board[to])
    THEN [ game |-> [g EXCEPT !.previous_state = Some(g),
                              !.captures = Append(g.captures, unwrap(g.board[to])),
                              !.half_moves = 0],
           panic |-> FALSE ]
    ELSE [ game |-> [g EXCEPT !.previous_state = Some(g),
                              !.half_moves = u32_add_one(g.half_moves,
                                                         g.overflow_checks).value],
           panic |-> FALSE ]

\* make_move_with_index, the branch on the type of the moving piece
piece_effects(g, from, to) ==
    LET mover == unwrap(g.board[from])
    IN  CASE mover.piece_type = "King" ->
                 [game |-> king_move_effects(g, from, to), panic |-> FALSE]
          [] mover.piece_type = "Rook" ->
                 [game |-> rook_rights(g, mover.color, from), panic |-> FALSE]
          [] mover.piece_type = "Pawn" -> pawn_move_effects(g, from, to)
          [] OTHER -> [game |-> g, panic |-> FALSE]

\* the capture of a rook writing true where the code writes false
captured_rook_grants(g, to) ==
    IF is_some(g.board[to]) /\ unwrap(g.board[to]).piece_type = "Rook"
    THEN LET rook_color == unwrap(g.board[to]).color
         IN  IF to[1] # (IF rook_color = "White" THEN 7 ELSE 0) THEN g
             ELSE IF to[2] = 0 THEN [g EXCEPT !.queenside_castle[rook_color] = TRUE]
             ELSE IF to[2] = 7 THEN [g EXCEPT !.kingside_castle[rook_color] = TRUE]
             ELSE g
    ELSE g

\* make_move_with_index, "remove castling rights if the rook is captured"
captured_rook_rights(g, to) ==
    IF is_some(g.board[to]) /\ unwrap(g.board[to]).piece_type = "Rook"
    THEN rook_rights(g, unwrap(g.board[to]).color, to)
    ELSE g

\* make_move_with_index, "make move"
relocate(g, from, to) == [g EXCEPT !.board[to] = g.board[from], !.board[from] = None]

\* the end of make_move_with_index without the reset of the en-passant target
make_move_keeps_target(u) ==
    IF u.panic
    THEN [game |-> u.game, ret |-> FALSE, err |-> FALSE, panic |-> TRUE]
    ELSE IF /\ u.game.turn = "Black"
            /\ u32_add_one(u.game.full_moves, u.game.overflow_checks).panic
    THEN [game |-> u.game, ret |-> FALSE, err |-> FALSE, panic |-> TRUE]
    ELSE [ game |-> [u.game EXCEPT
                        !.full_moves =
                            IF u.game.turn = "Black"
                            THEN u32_add_one(@, u.game.overflow_checks).value
                            ELSE @,
                        !.turn = opposite(u.game.turn)],
           ret |-> TRUE, err |-> FALSE, panic |-> FALSE ]

\* make_move_with_index, from update_attacked_squares() to Ok(true); u is what
\* update_attacked_squares produced;
\* `self.full_moves += 1` is a u32 sum
make_move_finish(u) ==
    IF u.panic
    THEN [game |-> u.game, ret |-> FALSE, err |-> FALSE, panic |-> TRUE]
    ELSE IF /\ u.game.turn = "Black"
            /\ u32_add_one(u.game.full_moves, u.game.overflow_checks).panic
    THEN [game |-> u.game, ret |-> FALSE, err |-> FALSE, panic |-> TRUE]
    ELSE [ game |-> [u.game EXCEPT
                        !.full_moves =
                            IF u.game.turn = "Black"
                            THEN u32_add_one(@, u.game.overflow_checks).value
                            ELSE @,
                        !.en_passant_square = None,
                        !.turn = opposite(u.game.turn)],
           ret |-> TRUE, err |-> FALSE, panic |-> FALSE ]

\* make_move_with_index after "if auto_promote"; p is what the promotion produced
make_move_promoted(p) ==
    IF p.panic THEN [game |-> p.game, ret |-> FALSE, err |-> FALSE, panic |-> TRUE]
    ELSE make_move_finish(update_attacked_squares(p.game))

\* make_move_relocate promoting whatever auto_promote says
make_move_always_promotes(e, from, to, auto_promote) ==
    IF e.panic THEN [game |-> e.game, ret |-> FALSE, err |-> FALSE, panic |-> TRUE]
    ELSE make_move_promoted(
             promote_to_piece(relocate(captured_rook_rights(e.game, to), from, to),
                              "Queen"))

\* make_move_with_index after the branch on the piece type; e is what it produced
make_move_relocate(e, from, to, auto_promote) ==
    IF e.panic THEN [game |-> e.game, ret |-> FALSE, err |-> FALSE, panic |-> TRUE]
    ELSE make_move_promoted(
             IF auto_promote
             THEN promote_to_piece(relocate(captured_rook_rights(e.game, to), from, to),
                                   "Queen")
             ELSE [ game |-> relocate(captured_rook_rights(e.game, to), from, to),
                    ret |-> FALSE, panic |-> FALSE ])

\* make_move_with_index after the capture logic; c is what it produced
make_move_captured(c, from, to, auto_promote) ==
    IF c.panic THEN [game |-> c.game, ret |-> FALSE, err |-> FALSE, panic |-> TRUE]
    ELSE make_move_relocate(piece_effects(c.game, from, to), from, to, auto_promote)

\* make_move_with_index from "save board state" to its end: the move is applied
\* without asking whether it is legal
make_move_unchecked(g, from, to, auto_promote) ==
    IF is_none(g.board[from])
    THEN [game |-> g, ret |-> FALSE, err |-> FALSE, panic |-> TRUE]
    ELSE make_move_captured(capture_effects(g, to), from, to, auto_promote)

\* the squares, as positions of the scan, holding the king of a color
king_squares(board, color) ==
    {k \in 1..64 : board[ScanOrder[k]] = Some(Piece("King", color))}

\* in_check: the first king of the color met by the scan decides
in_check(g, color) ==
    \E k \in king_squares(g.board, color) :
        /\ \A m \in king_squares(g.board, color) : k <= m
        /\ ScanOrder[k] \in get_attacked_squares(g, opposite(color))

\* filter_tested without its in_check test: every pseudo-legal move is kept
filter_untested(sim, st, mve, color) ==
    IF sim.panic
    THEN [game |-> sim.game, moves |-> st.moves, err |-> FALSE, panic |-> TRUE]
    ELSE [ game |-> undo_last_move(sim.game),
           moves |-> Append(st.moves, mve),
           err |-> FALSE,
           panic |-> FALSE ]

\* one turn of the "for mve in pseudo_legal_moves" loop of
\* get_legal_moves_array_index once the move is made (sim): test in_check, keep
\* the move if the king is safe, undo
filter_tested(sim, st, mve, color) ==
    IF sim.panic
    THEN [game |-> sim.game, moves |-> st.moves, err |-> FALSE, panic |-> TRUE]
    ELSE [ game |-> undo_last_move(sim.game),
           moves |-> IF in_check(sim.game, color) THEN st.moves
                     ELSE Append(st.moves, mve),
           err |-> FALSE,
           panic |-> FALSE ]

\* one turn of the loop: make_move_with_index(pos, mve, false, true) and the rest
filter_turn(st, pos, color, mve) ==
    filter_tested(make_move_unchecked(st.game, pos, mve, TRUE), st, mve, color)

\* the loop from its k-th move on; st is the game and the moves kept so far
RECURSIVE filter_legal(_, _, _, _, _)
filter_legal(st, pos, color, pseudo_legal_moves, k) ==
    IF st.panic \/ k > Len(pseudo_legal_moves) THEN st
    ELSE filter_legal(filter_turn(st, pos, color, pseudo_legal_moves[k]),
                      pos, color, pseudo_legal_moves, k + 1)

\* get_legal_moves_array_index once the pseudo-legal moves are known
legal_of_pseudo(g, index, pseudo) ==
    IF pseudo.panic THEN [game |-> g, moves |-> <<>>, err |-> FALSE, panic |-> TRUE]
    ELSE filter_legal([game |-> g, moves |-> <<>>, err |-> FALSE, panic |-> FALSE],
                      index, unwrap(g.board[index]).color, pseudo.moves, 1)

\* Ok(moves), Err for a square off the board, or a panic
get_legal_moves_array_index(g, index) ==
    IF ~is_valid_pos(index[1], index[2])
    THEN [game |-> g, moves |-> <<>>, err |-> TRUE, panic |-> FALSE]
    ELSE IF is_none(g.board[index])
    THEN [game |-> g, moves |-> <<>>, err |-> FALSE, panic |-> FALSE]
    ELSE legal_of_pseudo(g, index,
                         get_pseudo_legal_moves_for_square(g, index[1], index[2], FALSE))

\* make_move_with_index with check_legal set, once the legal moves of the piece
\* are known; unwrap() of an Err aborts
checked_move(legal, from, to, auto_promote) ==
    IF legal.err \/ legal.panic
    THEN [game |-> legal.game, ret |-> FALSE, err |-> FALSE, panic |-> TRUE]
    ELSE IF to \notin Range(legal.moves)
    THEN [game |-> legal.game, ret |-> FALSE, err |-> FALSE, panic |-> FALSE]
    ELSE make_move_unchecked(legal.game, from, to, auto_promote)

\* make_move_with_index: Ok(ret), or a panic
make_move_with_index(g, from, to, check_legal, auto_promote) ==
    IF ~check_legal THEN make_move_unchecked(g, from, to, auto_promote)
    ELSE IF /\ is_valid_pos(from[1], from[2])
            /\ is_some(g.board[from])
            /\ unwrap(g.board[from]).color # g.turn
    THEN [game |-> g, ret |-> FALSE, err |-> FALSE, panic |-> FALSE]
    ELSE checked_move(get_legal_moves_array_index(g, from), from, to, auto_promote)

\* move_hash.insert((i, j), legal_moves): the map is a set of <<square, moves>>
all_legal_insert(legal, st, sq) ==
    IF legal.panic THEN [game |-> legal.game, map |-> st.map, panic |-> TRUE]
    ELSE [ game |-> legal.game,
           map |-> st.map \cup {<<sq, legal.moves>>},
           panic |-> FALSE ]

\* the body of the scan of get_all_legal_moves at one square
all_legal_at(st, color, sq) ==
    IF is_some(st.game.board[sq]) /\ unwrap(st.game.board[sq]).color = color
    THEN all_legal_insert(get_legal_moves_array_index(st.game, sq), st, sq)
    ELSE st

\* get_all_legal_moves from the k-th square of the scan on; st is the game and
\* the map filled so far
RECURSIVE all_legal_from(_, _, _)
all_legal_from(st, color, k) ==
    IF st.panic \/ k > 64 THEN st
    ELSE all_legal_from(all_legal_at(st, color, ScanOrder[k]), color, k + 1)

get_all_legal_moves(g, color) ==
    all_legal_from([game |-> g, map |-> {}, panic |-> FALSE], color, 1)

RECURSIVE sum_len(_)
sum_len(map) ==
    IF map = {} THEN 0
    ELSE LET e == CHOOSE x \in map : TRUE IN Len(e[2]) + sum_len(map \ {e})

\* num_of_legal_moves once the map is known
count_moves(all) == [game |-> all.game, ret |-> sum_len(all.map), panic |-> all.panic]

num_of_legal_moves(g, color) == count_moves(get_all_legal_moves(g, color))

\* the piece types of a color in scan order, from the k-th square on
RECURSIVE pieces_from(_, _, _)
pieces_from(board, color, k) ==
    IF k > 64 THEN <<>>
    ELSE (IF is_some(board[ScanOrder[k]]) /\ unwrap(board[ScanOrder[k]]).color = color
          THEN <<unwrap(board[ScanOrder[k]]).piece_type>> ELSE <<>>)
         \o pieces_from(board, color, k + 1)

\* can_win knowing only the orders of the table that begin with the king
can_win_king_first(g, color) ==
    pieces_from(g.board, color, 1)
        \notin {<<"King">>, <<"King", "Knight">>, <<"King", "Bishop">>,
                <<"King", "Knight", "Knight">>}

can_win(g, color) == pieces_from(g.board, color, 1) \notin insufficient_material

\* classify that names the side to move, not its opponent, as the winner
classify_mover_wins(n) ==
    IF n.panic THEN [game |-> n.game, ret |-> <<>>, panic |-> TRUE]
    ELSE [ game |-> n.game, panic |-> FALSE,
           ret |-> IF n.ret = 0
                   THEN (IF in_check(n.game, n.game.turn)
                         THEN <<"Win", "Checkmate", n.game.turn>>
                         ELSE <<"Draw", "Stalemate">>)
                   ELSE IF u32_ge(n.game.half_moves, 100)
                   THEN <<"Draw", "FiftyMoveRule">>
                   ELSE IF ~can_win(n.game, "White") /\ ~can_win(n.game, "Black")
                   THEN <<"Draw", "InsufficientMaterial">>
                   ELSE <<"InProgress">> ]

\* get_state once the number of legal moves of the side to move is known
\* classify looking at the material before the half-move clock
classify_material_first(n) ==
    IF n.panic THEN [game |-> n.game, ret |-> <<>>, panic |-> TRUE]
    ELSE [ game |-> n.game, panic |-> FALSE,
           ret |-> IF n.ret = 0
                   THEN (IF in_check(n.game, n.game.turn)
                         THEN <<"Win", "Checkmate", opposite(n.game.turn)>>
                         ELSE <<"Draw", "Stalemate">>)
                   ELSE IF ~can_win(n.game, "White") /\ ~can_win(n.game, "Black")
                   THEN <<"Draw", "InsufficientMaterial">>
                   ELSE IF u32_ge(n.game.half_moves, 100)
                   THEN <<"Draw", "FiftyMoveRule">>
                   ELSE <<"InProgress">> ]

classify(n) ==
    IF n.panic THEN [game |-> n.game, ret |-> <<>>, panic |-> TRUE]
    ELSE [ game |-> n.game, panic |-> FALSE,
           ret |-> IF n.ret = 0
                   THEN (IF in_check(n.game, n.game.turn)
                         THEN <<"Win", "Checkmate", opposite(n.game.turn)>>
                         ELSE <<"Draw", "Stalemate">>)
                   ELSE IF u32_ge(n.game.half_moves, 100)
                   THEN <<"Draw", "FiftyMoveRule">>
                   ELSE IF ~can_win(n.game, "White") /\ ~can_win(n.game, "Black")
                   THEN <<"Draw", "InsufficientMaterial">>
                   ELSE <<"InProgress">> ]

\* get_state looking for the end of the game before the pending promotion
get_state_promotion_last(g) ==
    LET c == classify(num_of_legal_moves(g, g.turn))
    IN  IF ~c.panic /\ c.ret = <<"InProgress">> /\ is_some(g.promotion_square)
        THEN [game |-> g, ret |-> <<"AwaitPromotion">>, panic |-> FALSE]
        ELSE c

get_state(g) ==
    IF is_some(g.promotion_square)
    THEN [game |-> g, ret |-> <<"AwaitPromotion">>, panic |-> FALSE]
    ELSE classify(num_of_legal_moves(g, g.turn))

(***************************************************************************)
(* The notation codec: algebraic squares and FEN strings.                  *)
(***************************************************************************)
Digits == <<"0", "1", "2", "3", "4", "5", "6", "7", "8", "9">>

Files == <<"a", "b", "c", "d", "e", "f", "g", "h">>

\* char::to_digit(10)
to_digit(chr) ==
    IF \E k \in 1..10 : Digits[k] = chr
    THEN Some((CHOOSE k \in 1..10 : Digits[k] = chr) - 1)
    ELSE None

\* char::from_digit(n, 10)
from_digit(n) == IF n >= 0 /\ n <= 9 THEN Some(Digits[n + 1]) ELSE None

\* the decimal digits of the number with the 16-bit halves h, by long division
RECURSIVE halves_to_string(_)
halves_to_string(h) ==
    LET low == (h[1] % 10) * 65536 + h[2]
    IN  IF h[1] = 0 /\ h[2] < 10 THEN <<Digits[h[2] + 1]>>
        ELSE halves_to_string(<<h[1] \div 10, low \div 10>>) \o <<Digits[(low % 10) + 1]>>

\* u32::to_string
to_string(n) == halves_to_string(u32_halves(n))

\* the 16-bit halves of the value of a string of decimal digits, read left to
\* right after the halves acc
RECURSIVE digits_halves(_, _)
digits_halves(str, acc) ==
    LET low == 10 * acc[2] + unwrap(to_digit(Head(str)))
    IN  IF str = <<>> THEN acc
        ELSE digits_halves(Tail(str), <<10 * acc[1] + low \div 65536, low % 65536>>)

\* the u32 a string of decimal digits denotes, which is at most u32::MAX
digits_value(str) == u32_of_halves(digits_halves(str, <<0, 0>>))

\* the decimal digits of u32::MAX
u32_max_digits == <<"4", "2", "9", "4", "9", "6", "7", "2", "9", "5">>

RECURSIVE strip_zeros(_)
strip_zeros(str) ==
    IF Len(str) > 1 /\ Head(str) = "0" THEN strip_zeros(Tail(str)) ELSE str

\* whether a string of decimal digits denotes a number above u32::MAX
exceeds_u32(str) ==
    LET s == strip_zeros(str)
        v(c) == unwrap(to_digit(c))
    IN  \/ Len(s) > 10
        \/ /\ Len(s) = 10
           /\ \E k \in 1..10 : /\ v(s[k]) > v(u32_max_digits[k])
                               /\ \A m \in 1..(k - 1) : s[m] = u32_max_digits[m]

\* str::parse::<u32>: an optional '+', then one or more digits, at most u32::MAX
parse_u32(str) ==
    LET body == IF str # <<>> /\ Head(str) = "+" THEN Tail(str) ELSE str
        bad == [value |-> 0, err |-> TRUE]
    IN  IF body = <<>> \/ \E k \in 1..Len(body) : is_none(to_digit(body[k])) THEN bad
        ELSE IF exceeds_u32(body) THEN bad
        ELSE [value |-> digits_value(strip_zeros(body)), err |-> FALSE]

\* str::split(sep): the pieces between separators, empty pieces included
RECURSIVE split(_, _, _)
split(str, sep, cur) ==
    IF str = <<>> THEN <<cur>>
    ELSE IF Head(str) = sep THEN <<cur>> \o split(Tail(str), sep, <<>>)
    ELSE split(Tail(str), sep, Append(cur, Head(str)))

\* char::is_whitespace: the characters with the Unicode property White_Space.
\* A character is a one-character string when it is ASCII and is written by
\* its code point, as in "U+00A0", when it is not; U+000B stands in the set as
\* the raw character.  The property holds of U+0009 to U+000D, U+0020, U+0085,
\* U+00A0, U+1680, U+2000 to U+200A, U+2028, U+2029, U+202F, U+205F and U+3000.
White_Space ==
    {"\t", "\n", "", "\f", "\r", " ", "U+0085", "U+00A0", "U+1680",
     "U+2000", "U+2001", "U+2002", "U+2003", "U+2004", "U+2005", "U+2006",
     "U+2007", "U+2008", "U+2009", "U+200A", "U+2028", "U+2029", "U+202F",
     "U+205F", "U+3000"}

\* the pieces between white space, empty pieces included
RECURSIVE split_at_whitespace(_, _)
split_at_whitespace(str, cur) ==
    IF str = <<>> THEN <<cur>>
    ELSE IF Head(str) \in White_Space THEN <<cur>> \o split_at_whitespace(Tail(str), <<>>)
    ELSE split_at_whitespace(Tail(str), Append(cur, Head(str)))

\* str::split_whitespace: the non-empty pieces between white space
split_whitespace(str) == SelectSeq(split_at_whitespace(str, <<>>), LAMBDA f : f # <<>>)

get_piece(chr) ==
    CASE chr = "P" -> Some(Piece("Pawn", "White"))
      [] chr = "N" -> Some(Piece("Knight", "White"))
      [] chr = "B" -> Some(Piece("Bishop", "White"))
      [] chr = "R" -> Some(Piece("Rook", "White"))
      [] chr = "Q" -> Some(Piece("Queen", "White"))
      [] chr = "K" -> Some(Piece("King", "White"))
      [] chr = "p" -> Some(Piece("Pawn", "Black"))
      [] chr = "n" -> Some(Piece("Knight", "Black"))
      [] chr = "b" -> Some(Piece("Bishop", "Black"))
      [] chr = "r" -> Some(Piece("Rook", "Black"))
      [] chr = "q" -> Some(Piece("Queen", "Black"))
      [] chr = "k" -> Some(Piece("King", "Black"))
      [] OTHER -> None

get_piece_notation(piece) ==
    LET t == piece.piece_type
        white == piece.color = "White"
    IN  CASE t = "Pawn" -> IF white THEN "P" ELSE "p"
          [] t = "Knight" -> IF white THEN "N" ELSE "n"
          [] t = "Bishop" -> IF white THEN "B" ELSE "b"
          [] t = "Rook" -> IF white THEN "R" ELSE "r"
          [] t = "Queen" -> IF white THEN "Q" ELSE "q"
          [] t = "King" -> IF white THEN "K" ELSE "k"

\* Ok(<<row, col>>), Err, or a panic: "8 - digit" is computed in usize, so the
\* digit 9 overflows the subtraction
alg_notation_to_indx(notation) ==
    LET bad == [value |-> <<0, 0>>, err |-> TRUE, panic |-> FALSE]
    IN  IF Len(notation) # 2 THEN bad
        ELSE IF ~\E k \in 1..8 : Files[k] = notation[1] THEN bad
        ELSE LET col == (CHOOSE k \in 1..8 : Files[k] = notation[1]) - 1
                 digit == to_digit(notation[2])
             IN  IF is_none(digit) THEN bad
                 ELSE IF unwrap(digit) > 8
                 THEN [value |-> <<0, 0>>, err |-> FALSE, panic |-> TRUE]
                 ELSE [value |-> <<8 - unwrap(digit), col>>, err |-> FALSE, panic |-> FALSE]

\* `v as u32`: the low 32 bits of a usize, held as a u32 is
usize_as_u32(v) == usize_as_i32(v)

\* Ok(notation), Err, or a panic; indx is a pair of usize.  The column is
\* matched first; "8 - indx.0 as u32" is computed in u32, so a row whose low
\* 32 bits are above 8 overflows the subtraction
indx_to_alg_notation(indx) ==
    IF indx[2][1] # 0 \/ indx[2][2] > 7
    THEN [value |-> <<>>, err |-> TRUE, panic |-> FALSE]
    ELSE IF u32_ge(usize_as_u32(indx[1]), 9)
    THEN [value |-> <<>>, err |-> FALSE, panic |-> TRUE]
    ELSE IF is_none(from_digit(8 - usize_as_u32(indx[1])))
    THEN [value |-> <<>>, err |-> TRUE, panic |-> FALSE]
    ELSE [ value |-> <<Files[indx[2][2] + 1], unwrap(from_digit(8 - usize_as_u32(indx[1])))>>,
           err |-> FALSE, panic |-> FALSE ]

\* from_fen, one rank of the piece placement from column j on.  "number - 1" is
\* computed in u32, so the digit 0 overflows; a square outside the 8x8 array aborts
RECURSIVE fen_place_row(_, _, _, _)
fen_place_row(board, i, row, j) ==
    IF row = <<>> THEN [board |-> board, err |-> FALSE, panic |-> FALSE]
    ELSE LET chr == Head(row)
             number == to_digit(chr)
         IN  IF is_some(number)
             THEN IF unwrap(number) = 0
                  THEN [board |-> board, err |-> FALSE, panic |-> TRUE]
                  ELSE fen_place_row(board, i, Tail(row), j + unwrap(number))
             ELSE IF is_none(get_piece(chr))
                  THEN [board |-> board, err |-> TRUE, panic |-> FALSE]
                  ELSE IF ~is_valid_pos(i, j)
                  THEN [board |-> board, err |-> FALSE, panic |-> TRUE]
                  ELSE fen_place_row([board EXCEPT ![<<i, j>>] = get_piece(chr)],
                                     i, Tail(row), j + 1)

\* from_fen, the ranks of the piece placement from the k-th on
RECURSIVE fen_place(_, _, _)
fen_place(board, rows, k) ==
    IF k > Len(rows) THEN [board |-> board, err |-> FALSE, panic |-> FALSE]
    ELSE LET r == fen_place_row(board, k - 1, rows[k], 0)
         IN  IF r.err \/ r.panic THEN r ELSE fen_place(r.board, rows, k + 1)

\* from_fen, the castling field from its k-th character on
RECURSIVE fen_castling(_, _, _)
fen_castling(g, field, k) ==
    IF k > Len(field) THEN [game |-> g, err |-> FALSE]
    ELSE LET c == field[k]
         IN  CASE c = "K" -> fen_castling([g EXCEPT !.kingside_castle["White"] = TRUE],
                                          field, k + 1)
               [] c = "Q" -> fen_castling([g EXCEPT !.queenside_castle["White"] = TRUE],
                                          field, k + 1)
               [] c = "k" -> fen_castling([g EXCEPT !.kingside_castle["Black"] = TRUE],
                                          field, k + 1)
               [] c = "q" -> fen_castling([g EXCEPT !.queenside_castle["Black"] = TRUE],
                                          field, k + 1)
               [] c = "-" -> fen_castling(
                                 [g EXCEPT !.kingside_castle = [White |-> FALSE, Black |-> FALSE],
                                           !.queenside_castle = [White |-> FALSE, Black |-> FALSE]],
                                 field, k + 1)
               [] OTHER -> [game |-> g, err |-> TRUE]

\* Ok(game), Err, or a panic (a missing field is an index out of bounds)
from_fen(fen_str) ==
    LET fen_fields == split_whitespace(fen_str)
        n == Len(fen_fields)
        fail(e, p) == [game |-> new_empty, err |-> e, panic |-> p]
        placed == fen_place(new_empty.board, split(fen_fields[1], "/", <<>>), 1)
        turned == [new_empty EXCEPT !.board = placed.board,
                                    !.turn = IF fen_fields[2] = <<"w">> THEN "White" ELSE "Black"]
        castled == fen_castling(turned, fen_fields[3], 1)
        ep == alg_notation_to_indx(fen_fields[4])
        half == parse_u32(fen_fields[5])
        full == parse_u32(fen_fields[6])
        done == update_attacked_squares(
                    [castled.game EXCEPT
                        !.en_passant_square =
                            IF fen_fields[4] = <<"-">> THEN None ELSE Some(ep.value),
                        !.half_moves = half.value,
                        !.full_moves = full.value])
    IN  CASE n < 1 -> fail(FALSE, TRUE)
          [] n >= 1 /\ (placed.err \/ placed.panic) -> fail(placed.err, placed.panic)
          [] OTHER ->
             IF n < 2 THEN fail(FALSE, TRUE)
             ELSE IF fen_fields[2] \notin {<<"w">>, <<"b">>} THEN fail(TRUE, FALSE)
             ELSE IF n < 3 THEN fail(FALSE, TRUE)
             ELSE IF castled.err THEN fail(TRUE, FALSE)
             ELSE IF n < 4 THEN fail(FALSE, TRUE)
             ELSE IF fen_fields[4] # <<"-">> /\ (ep.err \/ ep.panic) THEN fail(ep.err, ep.panic)
             ELSE IF n < 5 THEN fail(FALSE, TRUE)
             ELSE IF half.err THEN fail(TRUE, FALSE)
             ELSE IF n < 6 THEN fail(FALSE, TRUE)
             ELSE IF full.err THEN fail(TRUE, FALSE)
             ELSE [game |-> done.game, err |-> FALSE, panic |-> done.panic]

\* to_fen, field 1: rank i from file j on, with empty_squares empty squares pending
RECURSIVE fen_rank(_, _, _, _)
fen_rank(board, i, j, empty_squares) ==
    LET run == IF empty_squares # 0 THEN <<unwrap(from_digit(empty_squares))>> ELSE <<>>
    IN  IF j > 7 THEN run
        ELSE IF is_some(board[<<i, j>>])
        THEN run \o <<get_piece_notation(unwrap(board[<<i, j>>]))>> \o fen_rank(board, i, j + 1, 0)
        ELSE fen_rank(board, i, j + 1, empty_squares + 1)

RECURSIVE fen_ranks(_, _)
fen_ranks(board, i) ==
    fen_rank(board, i, 0, 0) \o (IF i # 7 THEN <<"/">> \o fen_ranks(board, i + 1) ELSE <<>>)

\* the string, or a panic of `indx_to_alg_notation(square).unwrap()`
to_fen(g) ==
    LET castling == (IF g.kingside_castle["White"] THEN <<"K">> ELSE <<>>)
                    \o (IF g.queenside_castle["White"] THEN <<"Q">> ELSE <<>>)
                    \o (IF g.kingside_castle["Black"] THEN <<"k">> ELSE <<>>)
                    \o (IF g.queenside_castle["Black"] THEN <<"q">> ELSE <<>>)
        en_passant_square ==
            IF is_some(g.en_passant_square)
            THEN indx_to_alg_notation(<<usize_of(unwrap(g.en_passant_square)[1]),
                                        usize_of(unwrap(g.en_passant_square)[2])>>)
            ELSE [value |-> <<"-">>, err |-> FALSE, panic |-> FALSE]
    IN  [ value |-> fen_ranks(g.board, 0)
              \o <<" ">> \o (IF g.turn = "White" THEN <<"w">> ELSE <<"b">>)
              \o <<" ">> \o (IF castling = <<>> THEN <<"-">> ELSE castling)
              \o <<" ">> \o en_passant_square.value
              \o <<" ">> \o to_string(g.half_moves)
              \o <<" ">> \o to_string(g.full_moves),
          panic |-> en_passant_square.err \/ en_passant_square.panic ]

StartFen ==
    << "r", "n", "b", "q", "k", "b", "n", "r", "/",
       "p", "p", "p", "p", "p", "p", "p", "p", "/",
       "8", "/", "8", "/", "8", "/", "8", "/",
       "P", "P", "P", "P", "P", "P", "P", "P", "/",
       "R", "N", "B", "Q", "K", "B", "N", "R",
       " ", "w", " ", "K", "Q", "k", "q", " ", "-", " ", "0", " ", "1" >>

new_starting_pos == from_fen(StartFen).game

(***************************************************************************)
(* The caller.  A Game is built from one of the construction strings below *)
(* and then driven through the public operations; the moves and squares    *)
(* the caller tries are drawn from the small sets given with each string.  *)
(***************************************************************************)
Mv(f, r, tf, tr, auto_promote) == << <<f, r>>, <<tf, tr>>, auto_promote >>

\* the standard starting position: the lines towards Fool's mate
\* rnbqkbnr/pppppppp/8/8/8/8/PPPPPPPP/RNBQKBNR w KQkq - 0 1
FoolsMate ==
    [ fen |-> StartFen,
      moves |-> { Mv("f", "2", "f", "4", TRUE),
                  Mv("e", "7", "e", "5", TRUE),
                  Mv("g", "2", "g", "3", TRUE),
                  Mv("d", "8", "h", "4", TRUE),
                  Mv("g", "2", "g", "4", TRUE) },
      queries |-> {},
      colors |-> {},
      pieces |-> {} ]

\* the standard starting position: the white king walks to f3
\* rnbqkbnr/pppppppp/8/8/8/8/PPPPPPPP/RNBQKBNR w KQkq - 0 1
KingWalk ==
    [ fen |-> StartFen,
      moves |-> { Mv("e", "2", "e", "4", TRUE),
                  Mv("e", "7", "e", "5", TRUE),
                  Mv("e", "1", "e", "2", TRUE),
                  Mv("d", "8", "h", "4", TRUE),
                  Mv("e", "2", "f", "3", TRUE) },
      queries |-> { <<"f", "3">> },
      colors |-> {},
      pieces |-> {} ]

\* a rook that can pin the bishop of a king with no safe square
\* kb6/8/1K6/8/8/8/8/7R w - - 0 1
PinnedBishop ==
    [ fen |-> <<"k", "b", "6", "/", "8", "/", "1", "K", "6", "/", "8", "/", "8", "/", "8", "/", "8", "/", "7", "R", " ", "w", " ", "-", " ", "-", " ", "0", " ", "1">>,
      moves |-> { Mv("h", "1", "h", "8", TRUE),
                  Mv("h", "1", "h", "7", TRUE),
                  Mv("b", "8", "a", "7", TRUE),
                  Mv("a", "8", "a", "7", TRUE) },
      queries |-> { <<"b", "8">> },
      colors |-> { "Black" },
      pieces |-> {} ]

\* a queen one move from stalemating a bare king
\* k7/8/8/1Q6/8/8/8/4K3 w - - 99 60
QueenStalemate ==
    [ fen |-> <<"k", "7", "/", "8", "/", "8", "/", "1", "Q", "6", "/", "8", "/", "8", "/", "8", "/", "4", "K", "3", " ", "w", " ", "-", " ", "-", " ", "9", "9", " ", "6", "0">>,
      moves |-> { Mv("b", "5", "b", "6", TRUE),
                  Mv("b", "5", "b", "7", TRUE),
                  Mv("a", "8", "b", "7", TRUE),
                  Mv("a", "8", "b", "8", TRUE) },
      queries |-> { <<"a", "8">> },
      colors |-> { "White", "Black" },
      pieces |-> {} ]

\* White may castle short; a black rook looks down the f-file
\* 4kr2/8/8/8/7N/8/8/4K2R w KQkq - 0 1
CastleThroughFile ==
    [ fen |-> <<"4", "k", "r", "2", "/", "8", "/", "8", "/", "8", "/", "7", "N", "/", "8", "/", "8", "/", "4", "K", "2", "R", " ", "w", " ", "K", "Q", "k", "q", " ", "-", " ", "0", " ", "1">>,
      moves |-> { Mv("e", "1", "g", "1", TRUE),
                  Mv("f", "8", "h", "8", TRUE),
                  Mv("e", "1", "e", "2", TRUE) },
      queries |-> { <<"h", "4">>, <<"e", "1">> },
      colors |-> {},
      pieces |-> {} ]

\* a pawn one step from promotion
\* 4k3/1P6/8/8/8/8/8/4K3 w - - 0 1
Promotion ==
    [ fen |-> <<"4", "k", "3", "/", "1", "P", "6", "/", "8", "/", "8", "/", "8", "/", "8", "/", "8", "/", "4", "K", "3", " ", "w", " ", "-", " ", "-", " ", "0", " ", "1">>,
      moves |-> { Mv("b", "7", "b", "8", FALSE),
                  Mv("b", "7", "b", "8", TRUE),
                  Mv("e", "8", "d", "7", TRUE),
                  Mv("e", "1", "e", "2", TRUE) },
      queries |-> { <<"e", "8">>, <<"b", "8">> },
      colors |-> { "Black" },
      pieces |-> { "Queen", "Knight" } ]

\* a position built with an en-passant target
\* 4k3/8/2n5/3Pp3/8/8/8/4K3 w - e6 0 1
EnPassant ==
    [ fen |-> <<"4", "k", "3", "/", "8", "/", "2", "n", "5", "/", "3", "P", "p", "3", "/", "8", "/", "8", "/", "8", "/", "4", "K", "3", " ", "w", " ", "-", " ", "e", "6", " ", "0", " ", "1">>,
      moves |-> { Mv("d", "5", "e", "6", TRUE),
                  Mv("d", "5", "d", "6", TRUE),
                  Mv("e", "8", "e", "7", TRUE),
                  Mv("e", "1", "e", "2", TRUE) },
      queries |-> { <<"d", "5">> },
      colors |-> { "White" },
      pieces |-> {} ]

\* the standard starting position, asked for the moves of both sides
\* rnbqkbnr/pppppppp/8/8/8/8/PPPPPPPP/RNBQKBNR w KQkq - 0 1
Opening ==
    [ fen |-> StartFen,
      moves |-> {},
      queries |-> {},
      colors |-> { "White", "Black" },
      pieces |-> {} ]

\* both kings and their king's rooks at home; the FEN grants White the short side only
\* 4k2r/8/8/8/8/8/8/4K2R w K - 0 1
RookCorner ==
    [ fen |-> <<"4", "k", "2", "r", "/", "8", "/", "8", "/", "8", "/", "8", "/", "8", "/", "8", "/", "4", "K", "2", "R", " ", "w", " ", "K", " ", "-", " ", "0", " ", "1">>,
      moves |-> { Mv("e", "1", "g", "1", TRUE),
                  Mv("e", "1", "c", "1", TRUE),
                  Mv("h", "1", "h", "8", TRUE),
                  Mv("e", "1", "e", "2", TRUE),
                  Mv("h", "8", "h", "1", TRUE) },
      queries |-> {},
      colors |-> {},
      pieces |-> {} ]

\* a pawn about to promote next to a cornered king, the clock at 100: once the
\* pawn stands on c8 Black has no move
\* k7/2P5/1K6/4B3/8/8/8/8 w - - 100 60
MaskedStalemate ==
    [ fen |-> <<"k", "7", "/", "2", "P", "5", "/", "1", "K", "6", "/", "4", "B", "3", "/", "8", "/", "8", "/", "8", "/", "8", " ", "w", " ", "-", " ", "-", " ", "1", "0", "0", " ", "6", "0">>,
      moves |-> { Mv("c", "7", "c", "8", FALSE) },
      queries |-> {},
      colors |-> {},
      pieces |-> {} ]

\* king and knight against king, two quiet moves short of the hundredth
\* 4k3/8/8/8/8/8/8/4KN2 w - - 98 60
BareKings ==
    [ fen |-> <<"4", "k", "3", "/", "8", "/", "8", "/", "8", "/", "8", "/", "8", "/", "8", "/", "4", "K", "N", "2", " ", "w", " ", "-", " ", "-", " ", "9", "8", " ", "6", "0">>,
      moves |-> { Mv("f", "1", "g", "3", TRUE),
                  Mv("e", "8", "e", "7", TRUE) },
      queries |-> {},
      colors |-> {},
      pieces |-> {} ]

Scenarios ==
    { FoolsMate,
      KingWalk,
      PinnedBishop,
      QueenStalemate,
      CastleThroughFile,
      Promotion,
      EnPassant,
      Opening,
      RookCorner,
      MaskedStalemate,
      BareKings }

\* the state after from_fen(s.fen) returned made
Constructed(s, made) ==
    /\ script = s
    /\ game = made.game
    /\ played = <<>>
    /\ result = [op |-> "from_fen", ret |-> ~made.err]
    /\ aborted = made.panic

Init == \E s \in Scenarios : Constructed(s, from_fen(s.fen))

\* the operation `call` ends: r is what it produced, value what it returns
Returns(r, call, value) ==
    IF r.panic
    THEN /\ aborted' = TRUE
         /\ result' = call
         /\ UNCHANGED <<game, played, script>>
    ELSE /\ game' = r.game
         /\ result' = [call EXCEPT !.ret = value]
         /\ UNCHANGED <<script, aborted>>

\* make_move once both squares are parsed: f and t are what alg_notation_to_indx
\* produced, r what make_move_with_index produced
MoveReturns(r, f, t, notation, auto_promote) ==
    /\ Returns(r, [op |-> "make_move", notation |-> notation, from |-> f, to |-> t,
                   auto_promote |-> auto_promote, err |-> FALSE, ret |-> "panic"], r.ret)
    /\ played' = IF ~r.panic /\ r.ret THEN Append(played, <<f, t>>) ELSE played

\* make_move whose `alg_notation_to_indx(..)?` returned early with the Err
MoveUnparsed(f, t, notation, auto_promote) ==
    /\ result' = [op |-> "make_move", notation |-> notation, from |-> f, to |-> t,
                  auto_promote |-> auto_promote, err |-> TRUE, ret |-> FALSE]
    /\ UNCHANGED <<game, script, played, aborted>>

\* make_move aborted inside alg_notation_to_indx
MoveUnparsedAborts(f, t, notation, auto_promote) ==
    /\ aborted' = TRUE
    /\ result' = [op |-> "make_move", notation |-> notation, from |-> f, to |-> t,
                  auto_promote |-> auto_promote, err |-> FALSE, ret |-> "panic"]
    /\ UNCHANGED <<game, script, played>>

\* make_move: from is parsed first, then to, then make_move_with_index runs
\* with check_legal set; f and t are what alg_notation_to_indx produced
MakeMoveParsed(f, t, notation, auto_promote) ==
    IF f.panic \/ (~f.err /\ t.panic)
    THEN MoveUnparsedAborts(f.value, t.value, notation, auto_promote)
    ELSE IF f.err \/ t.err
    THEN MoveUnparsed(f.value, t.value, notation, auto_promote)
    ELSE MoveReturns(make_move_with_index(game, f.value, t.value, TRUE, auto_promote),
                     f.value, t.value, notation, auto_promote)

\* make_move(from, to, auto_promote), the squares in algebraic notation
MakeMove(from, to, auto_promote) ==
    /\ ~aborted
    /\ Len(played) < MaxMoves
    /\ MakeMoveParsed(alg_notation_to_indx(from), alg_notation_to_indx(to),
                      <<from, to>>, auto_promote)

\* get_legal_moves_alg_notation once the square is parsed: r is what
\* get_legal_moves_array_index produced, Ok(moves) or its Err, for the index indx
GetLegalMovesReturns(r, indx) ==
    /\ Returns(r, [op |-> "get_legal_moves", pos |-> indx, err |-> r.err, ret |-> "panic"],
               r.moves)
    /\ UNCHANGED played

\* get_legal_moves_alg_notation: `alg_notation_to_indx(pos)?` returns early
\* with its Err or aborts; i is what it produced
GetLegalMovesParsed(i) ==
    IF i.panic
    THEN /\ aborted' = TRUE
         /\ result' = [op |-> "get_legal_moves", pos |-> i.value, err |-> FALSE,
                       ret |-> "panic"]
         /\ UNCHANGED <<game, script, played>>
    ELSE IF i.err
    THEN /\ result' = [op |-> "get_legal_moves", pos |-> i.value, err |-> TRUE, ret |-> <<>>]
         /\ UNCHANGED <<game, script, played, aborted>>
    ELSE GetLegalMovesReturns(get_legal_moves_array_index(game, i.value), i.value)

\* get_legal_moves_alg_notation(pos)
GetLegalMoves(pos) ==
    /\ ~aborted
    /\ GetLegalMovesParsed(alg_notation_to_indx(pos))

\* get_all_legal_moves(color)
GetAllLegalMovesReturns(r, color) ==
    /\ Returns(r, [op |-> "get_all_legal_moves", color |-> color, ret |-> "panic"], r.map)
    /\ UNCHANGED played

GetAllLegalMoves(color) ==
    /\ ~aborted
    /\ GetAllLegalMovesReturns(get_all_legal_moves(game, color), color)

\* get_state()
GetStateReturns(r) ==
    /\ Returns(r, [op |-> "get_state", ret |-> "panic"], r.ret)
    /\ UNCHANGED played

GetState ==
    /\ ~aborted
    /\ GetStateReturns(get_state(game))

\* promote_to_piece(piece_type)
PromoteToPieceReturns(r, piece_type) ==
    /\ Returns(r, [op |-> "promote_to_piece", piece_type |-> piece_type, ret |-> "panic"],
               r.ret)
    /\ UNCHANGED played

PromoteToPiece(piece_type) ==
    /\ ~aborted
    /\ PromoteToPieceReturns(promote_to_piece(game, piece_type), piece_type)

\* undo_last_move()
UndoLastMove ==
    /\ ~aborted
    /\ game' = undo_last_move(game)
    /\ played' = IF is_none(game.previous_state) THEN played
                 ELSE SubSeq(played, 1, Len(played) - 1)
    /\ result' = [op |-> "undo_last_move",
                   undone |-> IF is_none(game.previous_state) THEN None
                              ELSE Some(played[Len(played)])]
    /\ UNCHANGED <<script, aborted>>

Next ==
    \/ \E m \in script.moves : MakeMove(m[1], m[2], m[3])
    \/ \E pos \in script.queries : GetLegalMoves(pos)
    \/ \E color \in script.colors : GetAllLegalMoves(color)
    \/ GetState
    \/ \E piece_type \in script.pieces : PromoteToPiece(piece_type)
    \/ UndoLastMove

Spec == Init /\ [][Next]_vars

(***************************************************************************)
(* The codec on its own: a Game is parsed from a canonical string and      *)
(* written back with to_fen.                                               *)
(***************************************************************************)
Placements ==
    { <<"4", "k", "3", "/", "8", "/", "8", "/", "8", "/", "8", "/", "8", "/", "8", "/",
        "4", "K", "2", "R">>,
      <<"r", "3", "k", "2", "r", "/", "8", "/", "8", "/", "3", "P", "p", "3", "/", "8", "/",
        "8", "/", "8", "/", "R", "3", "K", "2", "R">> }

ActiveSides == { <<"w">>, <<"b">> }

\* "-" or a non-empty subset of KQkq in that order
pick(letter, taken) == IF taken THEN <<letter>> ELSE <<>>

subset_field(wk, wq, bk, bq) ==
    IF ~(wk \/ wq \/ bk \/ bq) THEN <<"-">>
    ELSE pick("K", wk) \o pick("Q", wq) \o pick("k", bk) \o pick("q", bq)

CastlingFields ==
    { subset_field(wk, wq, bk, bq) : wk \in BOOLEAN, wq \in BOOLEAN,
                                     bk \in BOOLEAN, bq \in BOOLEAN }

EnPassantFields == { <<"-">>, <<"e", "6">> }

ClockFields == { <<"0", " ", "1">>, <<"1", "2", " ", "3", "4">> }

CanonicalStrings ==
    { p \o <<" ">> \o a \o <<" ">> \o c \o <<" ">> \o e \o <<" ">> \o n :
        p \in Placements, a \in ActiveSides, c \in CastlingFields,
        e \in EnPassantFields, n \in ClockFields }

\* a caller that only converts
Converting(str) == [fen |-> str, moves |-> {}, queries |-> {}, colors |-> {}, pieces |-> {}]

InitCodec == \E str \in CanonicalStrings : Constructed(Converting(str), from_fen(str))

\* to_fen()
ToFenReturns(r) ==
    /\ aborted' = r.panic
    /\ result' = [op |-> "to_fen", ret |-> IF r.panic THEN "panic" ELSE r.value]
    /\ UNCHANGED <<game, script, played>>

ToFen ==
    /\ ~aborted
    /\ ToFenReturns(to_fen(game))

NextCodec == ToFen

SpecCodec == InitCodec /\ [][NextCodec]_vars

(***************************************************************************)
(* The material on its own: both kings at home, up to MaxExtras knights    *)
(* and bishops on a8, c6, b3, g1 and h1, squares that come before and      *)
(* after the kings in the scan of the board; get_state is asked.           *)
(***************************************************************************)
MaxExtras == 3

\* what may stand on a square: nothing or one minor piece, as FEN letters
Minor == { <<>>, <<"N">>, <<"B">>, <<"n">>, <<"b">> }

\* a run of n empty squares in a placement row
empties(n) == IF n = 0 THEN <<>> ELSE <<Digits[n + 1]>>

\* a row holding x, if anything, on file j
row_with(x, j) == IF x = <<>> THEN <<"8">> ELSE empties(j) \o x \o empties(7 - j)

\* the eighth rank: the black king on e8 and x on a8
row_black_king(x) ==
    IF x = <<>> THEN <<"4", "k", "3">> ELSE x \o <<"3", "k", "3">>

\* the first rank: the white king on e1, x on g1 and y on h1
row_white_king(x, y) ==
    <<"4", "K">> \o (IF x = <<>> THEN (IF y = <<>> THEN <<"3">> ELSE <<"2">> \o y)
                     ELSE <<"1">> \o x \o (IF y = <<>> THEN <<"1">> ELSE y))

MaterialString(a8, c6, b3, g1, h1) ==
    row_black_king(a8) \o <<"/", "8", "/">> \o row_with(c6, 2)
        \o <<"/", "8", "/", "8", "/">> \o row_with(b3, 1) \o <<"/", "8", "/">>
        \o row_white_king(g1, h1) \o <<" ", "w", " ", "-", " ", "-", " ", "0", " ", "1">>

MaterialStrings ==
    { MaterialString(x[1], x[2], x[3], x[4], x[5]) :
        x \in { y \in Minor \X Minor \X Minor \X Minor \X Minor :
                  Len(y[1]) + Len(y[2]) + Len(y[3]) + Len(y[4]) + Len(y[5]) <= MaxExtras } }

InitMaterial == \E str \in MaterialStrings : Constructed(Converting(str), from_fen(str))

NextMaterial == GetState

SpecMaterial == InitMaterial /\ [][NextMaterial]_vars

(***************************************************************************)
(* The square notation on its own: king and pawn against king, and the     *)
(* caller passes well-formed and ill-formed squares to alg_notation_to_indx *)
(* and to make_move.                                                       *)
(***************************************************************************)
\* 4k3/8/8/8/8/8/4P3/4K3 w - - 0 1
NotationFen ==
    <<"4", "k", "3", "/", "8", "/", "8", "/", "8", "/", "8", "/", "8", "/",
      "4", "P", "3", "/", "4", "K", "3", " ", "w", " ", "-", " ", "-", " ", "0", " ", "1">>

\* e2, e4, e8; e0, e9, i2, ex, E2, 2e; the empty string, e, e2e
Notations ==
    { <<"e", "2">>, <<"e", "4">>, <<"e", "8">>,
      <<"e", "0">>, <<"e", "9">>, <<"i", "2">>, <<"e", "x">>, <<"E", "2">>, <<"2", "e">>,
      <<>>, <<"e">>, <<"e", "2", "e">> }

InitNotation == Constructed(Converting(NotationFen), from_fen(NotationFen))

\* alg_notation_to_indx(notation), called by itself
AlgNotationToIndx(notation) ==
    /\ ~aborted
    /\ aborted' = alg_notation_to_indx(notation).panic
    /\ result' = [op |-> "alg_notation_to_indx", notation |-> notation,
                  err |-> alg_notation_to_indx(notation).err,
                  ret |-> alg_notation_to_indx(notation).value]
    /\ UNCHANGED <<game, script, played>>

\* a8, h1 and e0; the column 8; the rows 9, 10 and 100; the rows 2^32 + 3,
\* which `as u32` takes for 3, and 2^31
IndexSamples ==
    { <<usize_of(0), usize_of(0)>>, <<usize_of(7), usize_of(7)>>,
      <<usize_of(8), usize_of(4)>>, <<usize_of(0), usize_of(8)>>,
      <<usize_of(9), usize_of(0)>>, <<usize_of(10), usize_of(7)>>,
      <<usize_of(100), usize_of(3)>>, <<usize_of(9), usize_of(8)>>,
      << <<2, 3>>, usize_of(0)>>, << <<1, 0>>, usize_of(0)>>,
      <<usize_of(0), <<2, 0>> >> }

\* indx_to_alg_notation(indx), called by itself
IndxToAlgNotationReturns(r, indx) ==
    /\ aborted' = r.panic
    /\ result' = [op |-> "indx_to_alg_notation", indx |-> indx, err |-> r.err,
                  ret |-> r.value]
    /\ UNCHANGED <<game, script, played>>

IndxToAlgNotation(indx) ==
    /\ ~aborted
    /\ IndxToAlgNotationReturns(indx_to_alg_notation(indx), indx)

NextNotation ==
    \/ \E notation \in Notations : AlgNotationToIndx(notation)
    \/ \E indx \in IndexSamples : IndxToAlgNotation(indx)
    \/ \E pos \in Notations : GetLegalMoves(pos)
    \/ \E from \in Notations : \E to \in Notations : MakeMove(from, to, TRUE)

SpecNotation == InitNotation /\ [][NextNotation]_vars

(***************************************************************************)
(* from_fen on its own: the caller holds a string, well-formed or not, and *)
(* calls from_fen on it.                                                   *)
(***************************************************************************)
\* a sound placement; an unknown letter; nine squares in a rank, ending in empty
\* squares and ending in a piece; nine ranks
PlacementSamples ==
    { <<"4", "k", "3", "/", "8", "/", "8", "/", "8", "/", "8", "/", "8", "/", "8", "/", "4", "K", "3">>,
      <<"4", "x", "3", "/", "8", "/", "8", "/", "8", "/", "8", "/", "8", "/", "8", "/", "4", "K", "3">>,
      <<"5", "k", "3", "/", "8", "/", "8", "/", "8", "/", "8", "/", "8", "/", "8", "/", "4", "K", "3">>,
      <<"8", "k", "/", "8", "/", "8", "/", "8", "/", "8", "/", "8", "/", "8", "/", "4", "K", "3">>,
      <<"4", "k", "3", "/", "8", "/", "8", "/", "8", "/", "8", "/", "8", "/", "8", "/", "8", "/", "4", "K", "3">> }

\* field 2
SideSamples ==
    { <<"w">>,
      <<"b">>,
      <<"x">> }

\* field 3
CastlingSamples ==
    { <<"-">>,
      <<"K", "Q", "k", "q">>,
      <<"K", "x">> }

\* field 4
TargetSamples ==
    { <<"-">>,
      <<"e", "3">>,
      <<"z", "3">> }

\* field 5
HalfSamples ==
    { <<"0">>,
      <<"x">> }

\* field 6
FullSamples ==
    { <<"1">>,
      <<"-", "1">> }

\* the fields joined by single blanks
RECURSIVE join_fields(_)
join_fields(fields) ==
    IF fields = <<>> THEN <<>>
    ELSE IF Len(fields) = 1 THEN fields[1]
    ELSE fields[1] \o <<" ">> \o join_fields(Tail(fields))

\* a sound string cut after its first n fields
cut_short(n) ==
    join_fields(SubSeq(<<<<"4", "k", "3", "/", "8", "/", "8", "/", "8", "/", "8", "/", "8",
                          "/", "8", "/", "4", "K", "3">>,
                        <<"w">>, <<"-">>, <<"-">>, <<"0">>, <<"1">>>>, 1, n))

\* the sound string with its blanks replaced: the blank after field k by sep
blank_replaced(k, sep) ==
    [m \in 1..Len(cut_short(6)) |->
        IF cut_short(6)[m] = " " /\ Len(split_whitespace(SubSeq(cut_short(6), 1, m))) = k
        THEN sep ELSE cut_short(6)[m]]

\* the sound string with tabs for blanks, with one tab among the blanks, with a
\* newline or "\r\n" after it, with blanks before it and two blanks in it; with
\* white space from outside ASCII for blanks, among the blanks and after it;
\* with U+200B, which is no white space, for a blank
BlankSamples ==
    { [m \in 1..Len(cut_short(6)) |->
          IF cut_short(6)[m] = " " THEN "\t" ELSE cut_short(6)[m]],
      blank_replaced(4, "\t"),
      cut_short(6) \o <<"\n">>,
      cut_short(6) \o <<"\r", "\n">>,
      [m \in 1..Len(cut_short(6)) |->
          IF cut_short(6)[m] = " " THEN "U+00A0" ELSE cut_short(6)[m]],
      blank_replaced(1, "U+3000"),
      blank_replaced(3, "U+2028"),
      cut_short(6) \o <<"U+0085">>,
      blank_replaced(2, "U+200B"),
      <<" ", " ">> \o cut_short(3) \o <<" ", " ">> \o join_fields(<<<<"-">>, <<"0">>, <<"1">>>>) }

FenSamples ==
    { join_fields(<<p, s, c, e, h, f>>) :
        p \in PlacementSamples, s \in SideSamples, c \in CastlingSamples,
        e \in TargetSamples, h \in HalfSamples, f \in FullSamples }
    \cup { cut_short(n) : n \in 0..5 }
    \cup BlankSamples

\* the caller holds the string and no Game yet
InitParse ==
    \E str \in FenSamples :
        /\ script = Converting(str)
        /\ game = new_empty
        /\ played = <<>>
        /\ result = [op |-> "new_empty"]
        /\ aborted = FALSE

\* from_fen returned made: Ok(game), Err, or it aborted
FromFenReturns(made) ==
    /\ game' = made.game
    /\ result' = [op |-> "from_fen", ret |-> ~made.err]
    /\ aborted' = made.panic
    /\ UNCHANGED <<script, played>>

\* Game::from_fen(fen_str)
FromFen ==
    /\ ~aborted
    /\ result.op = "new_empty"
    /\ FromFenReturns(from_fen(script.fen))

NextParse == FromFen

SpecParse == InitParse /\ [][NextParse]_vars

(***************************************************************************)
(* The operations that take array indices, on their own.  An index is a    *)
(* usize of full width, <<q, r>> for q * 2^31 + r.                         *)
(***************************************************************************)
\* 0, 4, 7, 8, 2^31 - 1, 2^31, 2^32, 2^32 + 7, 2^32 - 1
UsizeSamples ==
    { <<0, 0>>, <<0, 4>>, <<0, 7>>, <<0, 8>>, <<0, 2147483647>>,
      <<1, 0>>, <<2, 0>>, <<2, 7>>, <<1, 2147483647>> }

\* `self.board[i][j]` is within the 8x8 array
in_bounds(indx) == indx[1][1] = 0 /\ indx[1][2] <= 7 /\ indx[2][1] = 0 /\ indx[2][2] <= 7

\* piece_at_array_index: Ok(square), Err, or a panic of the array access
piece_at_array_index(g, indx) ==
    IF ~is_valid_pos(usize_as_i32(indx[1]), usize_as_i32(indx[2]))
    THEN [ret |-> None, err |-> TRUE, panic |-> FALSE]
    ELSE IF ~in_bounds(indx)
    THEN [ret |-> None, err |-> FALSE, panic |-> TRUE]
    ELSE [ret |-> g.board[<<indx[1][2], indx[2][2]>>], err |-> FALSE, panic |-> FALSE]

\* get_legal_moves_array_index for an index of full width
get_legal_moves_array_index_usize(g, index) ==
    IF ~is_valid_pos(usize_as_i32(index[1]), usize_as_i32(index[2]))
    THEN [game |-> g, moves |-> <<>>, err |-> TRUE, panic |-> FALSE]
    ELSE IF ~in_bounds(index)
    THEN [game |-> g, moves |-> <<>>, err |-> FALSE, panic |-> TRUE]
    ELSE get_legal_moves_array_index(g, <<index[1][2], index[2][2]>>)

\* the square an index within the array denotes
square_of(index) == <<index[1][2], index[2][2]>>

\* make_move_with_index with check_legal set, for a `to` that is no square of
\* the array: legal is what get_legal_moves_array_index produced, and
\* contains(&(i2, j2)) is false
off_board_move(legal) ==
    [ game |-> legal.game, ret |-> FALSE, err |-> FALSE,
      panic |-> legal.err \/ legal.panic ]

\* make_move_array_index for indices of full width: is_valid_move, then
\* make_move_with_index with check_legal set, whose piece_at_array_index reads
\* self.board[i1][j1]
make_move_array_index(g, from, to, auto_promote) ==
    IF ~is_valid_move(from, to)
    THEN [game |-> g, ret |-> FALSE, err |-> FALSE, panic |-> FALSE]
    ELSE IF ~in_bounds(from)
    THEN [game |-> g, ret |-> FALSE, err |-> FALSE, panic |-> TRUE]
    ELSE IF in_bounds(to)
    THEN make_move_with_index(g, square_of(from), square_of(to), TRUE, auto_promote)
    ELSE IF /\ is_some(g.board[square_of(from)])
            /\ unwrap(g.board[square_of(from)]).color # g.turn
    THEN [game |-> g, ret |-> FALSE, err |-> FALSE, panic |-> FALSE]
    ELSE off_board_move(get_legal_moves_array_index(g, square_of(from)))

\* the moves asked by index: e2-e4, Ke1-d1, Ke8-d8, e4-e5 and a move from an
\* empty square; then a rank 8 and a rank 2^31, which `as i32` refuses; then
\* 2^32 and 2^32 + 6 as the rank of from and 2^32 + 4 as the rank of to, which
\* `as i32` takes for 0, 6 and 4
IndexMoves ==
    { << <<usize_of(6), usize_of(4)>>, <<usize_of(4), usize_of(4)>> >>,
      << <<usize_of(7), usize_of(4)>>, <<usize_of(7), usize_of(3)>> >>,
      << <<usize_of(0), usize_of(4)>>, <<usize_of(0), usize_of(3)>> >>,
      << <<usize_of(4), usize_of(4)>>, <<usize_of(3), usize_of(4)>> >>,
      << <<usize_of(5), usize_of(0)>>, <<usize_of(4), usize_of(0)>> >>,
      << <<usize_of(8), usize_of(4)>>, <<usize_of(4), usize_of(4)>> >>,
      << <<<<1, 0>>, usize_of(4)>>, <<usize_of(4), usize_of(4)>> >>,
      << <<<<2, 0>>, usize_of(0)>>, <<usize_of(0), usize_of(0)>> >>,
      << <<<<2, 6>>, usize_of(4)>>, <<usize_of(4), usize_of(4)>> >>,
      << <<usize_of(6), usize_of(4)>>, <<<<2, 4>>, usize_of(4)>> >> }

\* how many moves are made by index
MaxIndexMoves == 2

InitIndex == Constructed(Converting(NotationFen), from_fen(NotationFen))

PieceAtArrayIndexReturns(r, indx) ==
    /\ aborted' = r.panic
    /\ result' = [op |-> "piece_at_array_index", indx |-> indx, err |-> r.err, ret |-> r.ret]
    /\ UNCHANGED <<game, script, played>>

\* piece_at_array_index(indx)
PieceAtArrayIndex(indx) ==
    /\ ~aborted
    /\ PieceAtArrayIndexReturns(piece_at_array_index(game, indx), indx)

GetLegalMovesArrayIndexReturns(r, index) ==
    /\ aborted' = r.panic
    /\ game' = r.game
    /\ result' = [op |-> "get_legal_moves_array_index", indx |-> index,
                  err |-> r.err, ret |-> r.moves]
    /\ UNCHANGED <<script, played>>

\* get_legal_moves_array_index(index)
GetLegalMovesArrayIndex(index) ==
    /\ ~aborted
    /\ GetLegalMovesArrayIndexReturns(get_legal_moves_array_index_usize(game, index), index)

MakeMoveArrayIndexReturns(r, from, to, auto_promote) ==
    /\ Returns(r, [op |-> "make_move_array_index", from |-> from, to |-> to,
                   auto_promote |-> auto_promote, err |-> FALSE, ret |-> "panic"], r.ret)
    /\ played' = IF ~r.panic /\ r.ret THEN Append(played, <<square_of(from), square_of(to)>>)
                 ELSE played

\* make_move_array_index(from, to, auto_promote)
MakeMoveArrayIndex(from, to, auto_promote) ==
    /\ ~aborted
    /\ Len(played) < MaxIndexMoves
    /\ MakeMoveArrayIndexReturns(make_move_array_index(game, from, to, auto_promote),
                                 from, to, auto_promote)

NextIndex ==
    \/ \E indx \in UsizeSamples \X UsizeSamples : PieceAtArrayIndex(indx)
    \/ \E index \in UsizeSamples \X UsizeSamples : GetLegalMovesArrayIndex(index)
    \/ \E m \in IndexMoves, auto_promote \in BOOLEAN :
           MakeMoveArrayIndex(m[1], m[2], auto_promote)

SpecIndex == InitIndex /\ [][NextIndex]_vars

(***************************************************************************)
(* The capture log: moves are made and get_captures is asked.              *)
(***************************************************************************)
\* get_captures, the loop over self.captures from its k-th entry on
RECURSIVE select_pieces(_, _, _)
select_pieces(captures, color, k) ==
    IF k > Len(captures) THEN <<>>
    ELSE (IF captures[k].color = opposite(color) THEN <<captures[k]>> ELSE <<>>)
         \o select_pieces(captures, color, k + 1)

get_captures(g, color) == select_pieces(g.captures, color, 1)

InitCaptures == \E s \in {EnPassant, RookCorner, PinnedBishop} : Constructed(s, from_fen(s.fen))

\* get_captures(color)
GetCaptures(color) ==
    /\ ~aborted
    /\ result' = [op |-> "get_captures", color |-> color, ret |-> get_captures(game, color)]
    /\ UNCHANGED <<game, script, played, aborted>>

NextCaptures ==
    \/ \E m \in script.moves : MakeMove(m[1], m[2], m[3])
    \/ \E color \in Color : GetCaptures(color)

SpecCaptures == InitCaptures /\ [][NextCaptures]_vars

(***************************************************************************)
(* A king that has left its home square, the queen's rook still in its     *)
(* corner.                                                                 *)
(***************************************************************************)
\* the white king on d1, the rook on a1, one king per side
\* 4k3/8/8/8/8/8/8/R2K4 w Q - 0 1
KingOffHome ==
    [ fen |-> <<"4", "k", "3", "/", "8", "/", "8", "/", "8", "/", "8", "/", "8", "/", "8", "/", "R", "2", "K", "4", " ", "w", " ", "Q", " ", "-", " ", "0", " ", "1">>,
      moves |-> { Mv("d", "1", "b", "1", TRUE),
                  Mv("d", "1", "c", "1", TRUE),
                  Mv("a", "1", "a", "2", TRUE),
                  Mv("e", "8", "e", "7", TRUE),
                  Mv("e", "7", "e", "8", TRUE) },
      queries |-> { <<"d", "1">> },
      colors |-> { "White" },
      pieces |-> { "Queen" } ]

InitOffHome == Constructed(KingOffHome, from_fen(KingOffHome.fen))

SpecOffHome == InitOffHome /\ [][Next]_vars

(***************************************************************************)
(* All legal moves of a side whose castling path is shielded by one of its *)
(* own pieces.                                                             *)
(***************************************************************************)
\* a bishop on the file between a rook and the square the king castles across
\* 4kr2/8/8/8/5B2/8/8/4K2R w K - 0 1
ShieldedFile ==
    [ fen |-> <<"4", "k", "r", "2", "/", "8", "/", "8", "/", "8", "/", "5", "B", "2", "/", "8", "/", "8", "/", "4", "K", "2", "R", " ", "w", " ", "K", " ", "-", " ", "0", " ", "1">>,
      moves |-> { Mv("e", "1", "g", "1", TRUE),
                  Mv("f", "4", "g", "3", TRUE),
                  Mv("f", "8", "f", "1", TRUE),
                  Mv("e", "8", "d", "8", TRUE) },
      queries |-> { <<"e", "1">> },
      colors |-> { "White", "Black" },
      pieces |-> { "Queen" } ]

InitAllLegal == Constructed(ShieldedFile, from_fen(ShieldedFile.fen))

SpecAllLegal == InitAllLegal /\ [][Next]_vars

(***************************************************************************)
(* Castling to the queen's side with a piece next to the rook.             *)
(***************************************************************************)
\* king and queen's rook at home, a knight still on b1
\* 4k3/8/8/8/8/8/8/RN2K3 w Q - 0 1
KnightAtHome ==
    [ fen |-> <<"4", "k", "3", "/", "8", "/", "8", "/", "8", "/", "8", "/", "8", "/", "8", "/", "R", "N", "2", "K", "3", " ", "w", " ", "Q", " ", "-", " ", "0", " ", "1">>,
      moves |-> { Mv("e", "1", "c", "1", TRUE),
                  Mv("b", "1", "c", "3", TRUE),
                  Mv("e", "8", "e", "7", TRUE),
                  Mv("e", "7", "e", "8", TRUE) },
      queries |-> { <<"e", "1">> },
      colors |-> { "White" },
      pieces |-> { "Queen" } ]

InitCastle == Constructed(KnightAtHome, from_fen(KnightAtHome.fen))

SpecCastle == InitCastle /\ [][Next]_vars

(***************************************************************************)
(* The two counters at the end of their range.  from_fen takes any u32 for *)
(* the half-move clock and the full-move counter; the games start one move *)
(* short of u32::MAX and at u32::MAX, under either build.                  *)
(***************************************************************************)
\* both counters at u32::MAX - 1, White to move, a black pawn en prise
\* 4k3/8/8/8/8/8/4p3/4K3 w - - 4294967294 4294967294
NearOverflow ==
    [ fen |-> <<"4", "k", "3", "/", "8", "/", "8", "/", "8", "/", "8", "/", "8", "/", "4", "p", "3", "/", "4", "K", "3", " ", "w", " ", "-", " ", "-", " ", "4", "2", "9", "4", "9", "6", "7", "2", "9", "4", " ", "4", "2", "9", "4", "9", "6", "7", "2", "9", "4">>,
      moves |-> { Mv("e", "1", "d", "2", TRUE),
                  Mv("e", "1", "e", "2", TRUE),
                  Mv("d", "2", "e", "1", TRUE),
                  Mv("e", "8", "d", "8", TRUE),
                  Mv("d", "8", "e", "8", TRUE) },
      queries |-> { <<"e", "1">>, <<"e", "8">> },
      colors |-> { "White" },
      pieces |-> { "Queen" } ]

\* the half-move clock at u32::MAX, White to move
\* 4k3/8/8/8/8/8/4p3/4K3 w - - 4294967295 1
ClockAtMax ==
    [ fen |-> <<"4", "k", "3", "/", "8", "/", "8", "/", "8", "/", "8", "/", "8", "/", "4", "p", "3", "/", "4", "K", "3", " ", "w", " ", "-", " ", "-", " ", "4", "2", "9", "4", "9", "6", "7", "2", "9", "5", " ", "1">>,
      moves |-> { Mv("e", "1", "d", "2", TRUE),
                  Mv("e", "1", "e", "2", TRUE),
                  Mv("d", "2", "e", "1", TRUE),
                  Mv("e", "8", "d", "8", TRUE),
                  Mv("d", "8", "e", "8", TRUE) },
      queries |-> { <<"e", "1">> },
      colors |-> { "White" },
      pieces |-> { "Queen" } ]

\* the full-move counter at u32::MAX, Black to move
\* 4k3/8/8/8/8/8/8/4K3 b - - 0 4294967295
CounterAtMax ==
    [ fen |-> <<"4", "k", "3", "/", "8", "/", "8", "/", "8", "/", "8", "/", "8", "/", "8", "/", "4", "K", "3", " ", "b", " ", "-", " ", "-", " ", "0", " ", "4", "2", "9", "4", "9", "6", "7", "2", "9", "5">>,
      moves |-> { Mv("e", "1", "d", "2", TRUE),
                  Mv("e", "1", "e", "2", TRUE),
                  Mv("d", "2", "e", "1", TRUE),
                  Mv("e", "8", "d", "8", TRUE),
                  Mv("d", "8", "e", "8", TRUE) },
      queries |-> { <<"e", "8">> },
      colors |-> { "Black" },
      pieces |-> { "Queen" } ]

\* the state after from_fen(s.fen) returned made, in the build that checks
\* overflow or in the build that does not
Built(s, made, checks) ==
    Constructed(s, [made EXCEPT !.game.overflow_checks = checks])

InitCounters ==
    \E s \in {NearOverflow, ClockAtMax, CounterAtMax}, checks \in BOOLEAN :
        Built(s, from_fen(s.fen), checks)

SpecCounters == InitCounters /\ [][Next]_vars

(***************************************************************************)
(* The properties.  They are stated against the board alone: bears_on is   *)
(* the set of squares the pieces of a color bear on by the geometry of     *)
(* their movement, computed afresh and without the castling squares.       *)
(***************************************************************************)
bears_from(g, sq) ==
    IF unwrap(g.board[sq]).piece_type = "King"
    THEN Range(directional_pseudo_legal_moves(g, sq[1], sq[2], queen_move_directions,
                                              1, TRUE))
    ELSE Range(get_pseudo_legal_moves_for_square(g, sq[1], sq[2], TRUE).moves)

bears_on(g, color) == UNION {bears_from(g, sq) : sq \in occupied_by(g.board, color)}

\* a king of the color stands on a square an opposing piece bears on
king_attacked(g, color) ==
    \E sq \in Squares :
        /\ g.board[sq] = Some(Piece("King", color))
        /\ sq \in bears_on(g, opposite(color))

\* the step is an apply-move call that returned Ok(true)
AcceptedMove == ~aborted' /\ result'.op = "make_move" /\ result'.ret

\* the square named by two characters
At(file, rank) == alg_notation_to_indx(<<file, rank>>).value

\* the piece standing on a square
piece_on(g, sq) == unwrap(g.board[sq])

\* ---- C1 ----------------------------------------------------------------
AppliedSafe(made, color) == ~made.panic => ~king_attacked(made.game, color)

LegalSafe(legal, sq, color) ==
    ~legal.panic =>
        \A d \in Range(legal.moves) :
            AppliedSafe(make_move_unchecked(legal.game, sq, d, TRUE), color)

\* ---- C2 ----------------------------------------------------------------
NoMoveStates ==
    { <<"Win", "Checkmate", "White">>, <<"Win", "Checkmate", "Black">>,
      <<"Draw", "Stalemate">> }

\* C2: when get-current-state finds that the side to move has no legal move, it
\* answers Win(Checkmate(opponent)) if an opposing piece bears on the king of
\* the side to move on the current board, and Draw(Stalemate) if none does.
C2_NoMovesClassified ==
    (~aborted /\ result.op = "get_state" /\ result.ret \in NoMoveStates) =>
        result.ret = IF king_attacked(game, game.turn)
                     THEN <<"Win", "Checkmate", opposite(game.turn)>>
                     ELSE <<"Draw", "Stalemate">>

\* ---- C3 ----------------------------------------------------------------
Restored(p, u) ==
    /\ u.board = p.board
    /\ u.turn = p.turn
    /\ u.kingside_castle = p.kingside_castle
    /\ u.queenside_castle = p.queenside_castle
    /\ u.en_passant_square = p.en_passant_square
    /\ u.half_moves = p.half_moves
    /\ u.full_moves = p.full_moves
    /\ u.captures = p.captures

\* C3: after every accepted apply-move, undo-last-move gives back the board,
\* the side to move, the castling rights, the en-passant target, both clocks
\* and the capture log of the position the move was applied to.
C3_UndoRestores == [][AcceptedMove => Restored(game, undo_last_move(game'))]_vars

\* an accepted capture has been undone
C3_Witness ==
    /\ ~aborted
    /\ result.op = "undo_last_move"
    /\ is_some(result.undone)
    /\ is_some(game.board[unwrap(result.undone)[2]])

\* ---- C4 ----------------------------------------------------------------
KingsideCastle(g, from, to) ==
    /\ is_some(g.board[from])
    /\ piece_on(g, from).piece_type = "King"
    /\ to = <<from[1], from[2] + 2>>

CastlePathClear(g, from) ==
    /\ \A j \in (from[2] + 1)..6 : is_none(g.board[<<from[1], j>>])
    /\ \A j \in from[2]..(from[2] + 2) :
           <<from[1], j>> \notin bears_on(g, opposite(piece_on(g, from).color))

\* C4: apply-move accepts a king moving two files towards the h-file only from
\* a position where the squares between king and rook are empty and no opposing
\* piece bears on the king's start, transit or destination square.
C4_CastlingOnlyWhenSafe ==
    [][(AcceptedMove /\ KingsideCastle(game, result'.from, result'.to))
           => CastlePathClear(game, result'.from)]_vars

\* ---- C5 ----------------------------------------------------------------
KingMoved(g, from) == is_some(g.board[from]) /\ piece_on(g, from).piece_type = "King"

NoRights(g, color) == ~g.kingside_castle[color] /\ ~g.queenside_castle[color]

\* C5: an accepted move of a king leaves its side without castling rights, and
\* a side without castling rights gets none back by a later call other than undo.
C5_KingMoveClearsRights ==
    [][/\ (AcceptedMove /\ KingMoved(game, result'.from))
            => NoRights(game', piece_on(game, result'.from).color)
       /\ \A color \in Color :
            (~aborted' /\ result'.op # "undo_last_move" /\ NoRights(game, color))
                => NoRights(game', color)]_vars

\* ---- C6 ----------------------------------------------------------------
PawnDouble(g, from, to) ==
    /\ is_some(g.board[from])
    /\ piece_on(g, from).piece_type = "Pawn"
    /\ from[2] = to[2]
    /\ (from[1] - to[1] = 2 \/ to[1] - from[1] = 2)

\* C6: after an accepted move that advances a pawn two ranks, the en-passant
\* target is the square the pawn passed over.
C6_DoubleStepSetsTarget ==
    [][(AcceptedMove /\ PawnDouble(game, result'.from, result'.to))
           => game'.en_passant_square =
                Some(<<(result'.from[1] + result'.to[1]) \div 2, result'.from[2]>>)]_vars

\* ---- C7 ----------------------------------------------------------------
QueryOrMove == {"get_legal_moves", "get_all_legal_moves", "make_move", "get_state"}

\* C7: while a promotion is pending, legal-move queries, apply-move calls and
\* get-current-state leave the board and the pending square as they are, and
\* get-current-state answers AwaitPromotion.
C7_PendingPromotionHolds ==
    [][(~aborted' /\ is_some(game.promotion_square) /\ result'.op \in QueryOrMove)
           => /\ game'.board = game.board
              /\ game'.promotion_square = game.promotion_square
              /\ result'.op = "get_state" => result'.ret = <<"AwaitPromotion">>]_vars

\* ---- C8 ----------------------------------------------------------------
\* C8: no operation called on a game started from the standard position aborts.
C8_NoAbortFromStart == script.fen = StartFen => ~aborted

\* ---- C9 ----------------------------------------------------------------
castling_field(str) == split_whitespace(str)[3]

Named(letter, str) == letter \in Range(castling_field(str))

\* C9: to_fen of the position parsed from a canonical string is that string,
\* and the castling rights of the parsed position are the ones the string names.
C9_RoundTrip ==
    /\ game.kingside_castle["White"] = Named("K", script.fen)
    /\ game.queenside_castle["White"] = Named("Q", script.fen)
    /\ game.kingside_castle["Black"] = Named("k", script.fen)
    /\ game.queenside_castle["Black"] = Named("q", script.fen)
    /\ result.op = "to_fen" => result.ret = script.fen

\* ---- C10 ---------------------------------------------------------------
Line(a, b, c, d) == <<a, b, c, d>>

Step(f, r, tf, tr) == <<At(f, r), At(tf, tr)>>

G3Line ==
    Line(Step("f", "2", "f", "4"), Step("e", "7", "e", "5"),
         Step("g", "2", "g", "3"), Step("d", "8", "h", "4"))

G4Line ==
    Line(Step("f", "2", "f", "4"), Step("e", "7", "e", "5"),
         Step("g", "2", "g", "4"), Step("d", "8", "h", "4"))

StateAsked(line) ==
    /\ ~aborted
    /\ script.fen = StartFen
    /\ played = line
    /\ result.op = "get_state"

\* C10 as written: from the starting position, after f2f4, e7e5, g2g3, d8h4,
\* get-current-state answers Win(Checkmate(Black)).
C10_G3LineIsMate == StateAsked(G3Line) => result.ret = <<"Win", "Checkmate", "Black">>

\* C10 amended: from the starting position, after f2f4, e7e5, g2g4, d8h4 the
\* white king is attacked and get-current-state answers Win(Checkmate(Black)).
C10_FoolsMate ==
    StateAsked(G4Line) =>
        /\ king_attacked(game, "White")
        /\ result.ret = <<"Win", "Checkmate", "Black">>

\* get-current-state has answered after f2f4, e7e5, g2g4, d8h4
C10_Witness == StateAsked(G4Line)

\* ---- C11 ---------------------------------------------------------------
\* the moves of a map from origin squares to destinations, as pairs
move_pairs(map) == UNION {{<<e[1], d>> : d \in Range(e[2])} : e \in map}

\* those made by pieces of one kind
pairs_of(map, g, piece_type) ==
    {p \in move_pairs(map) : piece_on(g, p[1]).piece_type = piece_type}

\* get-all-legal-moves(color) has answered in the starting position
AskedAtStart(color) ==
    /\ ~aborted
    /\ script.fen = StartFen
    /\ played = <<>>
    /\ result.op = "get_all_legal_moves"
    /\ result.color = color

TwentyMoves(map, g) ==
    /\ Cardinality(move_pairs(map)) = 20
    /\ Cardinality(pairs_of(map, g, "Pawn")) = 16
    /\ Cardinality(pairs_of(map, g, "Knight")) = 4

\* C11 as written: in the starting position get-all-legal-moves(White) holds
\* 20 moves, 16 of pawns and 4 of knights, and get-all-legal-moves(Black),
\* Black not being to move, holds none.
C11_TwentyAndNone ==
    /\ AskedAtStart("White") => TwentyMoves(result.ret, game)
    /\ AskedAtStart("Black") => move_pairs(result.ret) = {}

\* C11 amended: in the starting position get-all-legal-moves holds 20 moves,
\* 16 of pawns and 4 of knights, for White and for Black alike.
C11_TwentyEach ==
    \A color \in Color : AskedAtStart(color) => TwentyMoves(result.ret, game)

\* get-all-legal-moves(Black) has answered in the starting position
C11_Witness == AskedAtStart("Black")

\* ---- C12 ---------------------------------------------------------------
\* the squares holding a pawn
pawns(g) ==
    {sq \in Squares : is_some(g.board[sq]) /\ unwrap(g.board[sq]).piece_type = "Pawn"}

\* the diagonal-forward squares of the pawn on sq
diagonals(g, sq) ==
    LET i == sq[1] + (IF unwrap(g.board[sq]).color = "White" THEN -1 ELSE 1)
    IN  {d \in {<<i, sq[2] - 1>>, <<i, sq[2] + 1>>} : is_valid_pos(d[1], d[2])}

\* d holds an enemy of color, or is the en-passant target and color is the
\* side entitled to capture on its rank
capturable(g, d, color) ==
    \/ is_some(g.board[d]) /\ unwrap(g.board[d]).color # color
    \/ g.en_passant_square = Some(d) /\ can_en_passant(d[1]) = Some(color)

\* C12: in move-generation mode, with or without an en-passant target set, a
\* pawn's diagonal-forward square is a pseudo-legal destination if and only
\* if it holds an enemy piece or it is the en-passant target and the pawn
\* belongs to the side entitled to capture on that target's rank.
C12_DiagonalIffCapture ==
    ~aborted =>
        \A sq \in pawns(game) : \A d \in diagonals(game, sq) :
            d \in Range(pawn_pseudo_legal_moves(game, sq[1], sq[2], FALSE))
                <=> capturable(game, d, unwrap(game.board[sq]).color)

\* ---- C13 ---------------------------------------------------------------
\* a pawn goes from its square diagonally onto the en-passant target of g
TakesEnPassant(g, from, to) ==
    /\ is_some(g.board[from])
    /\ piece_on(g, from).piece_type = "Pawn"
    /\ (to[1] - from[1] = 1 \/ from[1] - to[1] = 1)
    /\ (to[2] - from[2] = 1 \/ from[2] - to[2] = 1)
    /\ g.en_passant_square = Some(to)

\* the board with the pawn of from on to and the square behind to emptied
AfterEnPassant(board, from, to) ==
    [sq \in Squares |->
        IF sq = to THEN board[from]
        ELSE IF sq = from \/ sq = <<from[1], to[2]>> THEN None
        ELSE board[sq]]

\* C13: when an accepted move takes a pawn diagonally onto the en-passant
\* target, the enemy pawn leaves the square behind the target (the target's
\* file, the rank the capturing pawn started on), the capturing pawn stands on
\* the target and no other square changes.
C13_EnPassantRemovesPassedPawn ==
    [][(AcceptedMove /\ TakesEnPassant(game, result'.from, result'.to))
           => game'.board = AfterEnPassant(game.board, result'.from, result'.to)]_vars

\* an en-passant capture of an enemy pawn has just been accepted
C13_Witness ==
    /\ ~aborted
    /\ result.op = "make_move"
    /\ result.ret
    /\ is_some(game.previous_state)
    /\ TakesEnPassant(unwrap(game.previous_state), result.from, result.to)
    /\ is_some(unwrap(game.previous_state).board[<<result.from[1], result.to[2]>>])

\* ---- C14 ---------------------------------------------------------------
\* C14: an en-passant target present in a position lasts one move: after the
\* next accepted move that is not itself a two-square pawn advance the target
\* is empty, whether or not the en-passant capture was played.
C14_TargetLastsOneMove ==
    [][(/\ AcceptedMove
        /\ is_some(game.en_passant_square)
        /\ ~PawnDouble(game, result'.from, result'.to))
           => game'.en_passant_square = None]_vars

\* a move other than the en-passant capture has just been accepted in a
\* position that had an en-passant target
C14_Witness ==
    /\ ~aborted
    /\ result.op = "make_move"
    /\ result.ret
    /\ is_some(game.previous_state)
    /\ is_some(unwrap(game.previous_state).en_passant_square)
    /\ ~TakesEnPassant(unwrap(game.previous_state), result.from, result.to)
    /\ ~PawnDouble(unwrap(game.previous_state), result.from, result.to)

\* ---- C15 ---------------------------------------------------------------
\* the king of from stands on its start square and goes two files along its rank
CastlingMove(g, from, to) ==
    /\ KingMoved(g, from)
    /\ from = <<IF piece_on(g, from).color = "White" THEN 7 ELSE 0, 4>>
    /\ to[1] = from[1]
    /\ (to[2] - from[2] = 2 \/ from[2] - to[2] = 2)

\* after castling: king on to, the wing's rook on the crossed square, start
\* square and corner empty, no rights left
Castled(g, king, from, to) ==
    /\ g.board[to] = Some(king)
    /\ g.board[<<from[1], (from[2] + to[2]) \div 2>>] =
           Some(Piece("Rook", king.color))
    /\ is_none(g.board[from])
    /\ is_none(g.board[<<from[1], IF to[2] > from[2] THEN 7 ELSE 0>>])
    /\ NoRights(g, king.color)

\* C15: an accepted castling move made from the king's start square puts the
\* king two files toward the rook and that wing's rook on the square the king
\* crossed, empties the king's start square and the rook's corner, and leaves
\* both castling flags of that side false.
C15_CastlingRelocatesBoth ==
    [][(AcceptedMove /\ CastlingMove(game, result'.from, result'.to))
           => Castled(game', piece_on(game, result'.from), result'.from, result'.to)]_vars

\* ---- C16 ---------------------------------------------------------------
\* sq holds a rook of color on a corner of that color's first rank
CornerRook(g, sq, color) ==
    /\ is_some(g.board[sq])
    /\ piece_on(g, sq) = Piece("Rook", color)
    /\ sq[1] = (IF color = "White" THEN 7 ELSE 0)
    /\ sq[2] \in {0, 7}

\* the move from -> to takes a rook of color off the corner sq, or captures it there
LosesCorner(g, from, to, color, sq) ==
    \/ sq = from /\ CornerRook(g, from, color)
    \/ sq = to /\ CornerRook(g, to, color) /\ piece_on(g, from).color # color

\* the flag of color on the wing of file j
flag(g, color, j) ==
    IF j = 7 THEN g.kingside_castle[color] ELSE g.queenside_castle[color]

\* C16: after an accepted move in which a rook moves off its original corner,
\* or an enemy piece captures a rook standing on its original corner, the
\* castling flag of that rook's side and wing is false, and every flag such a
\* rook does not account for is as it was.
C16_CornerRookClearsItsFlag ==
    [][(/\ AcceptedMove
        /\ \E color \in Color : \E sq \in Squares :
               LosesCorner(game, result'.from, result'.to, color, sq))
           => \A color \in Color : \A j \in {0, 7} :
                  flag(game', color, j) =
                      IF LosesCorner(game, result'.from, result'.to, color,
                                     <<IF color = "White" THEN 7 ELSE 0, j>>)
                      THEN FALSE
                      ELSE flag(game, color, j)]_vars

\* a rook has just left its corner and taken the enemy rook on its corner, both
\* sides having had the right of that wing
C16_Witness ==
    /\ ~aborted
    /\ result.op = "make_move"
    /\ result.ret
    /\ is_some(game.previous_state)
    /\ \E color \in Color :
         LET before == unwrap(game.previous_state)
         IN  /\ LosesCorner(before, result.from, result.to, color, result.from)
             /\ LosesCorner(before, result.from, result.to, opposite(color), result.to)
             /\ flag(before, color, result.from[2])
             /\ flag(before, opposite(color), result.to[2])

\* ---- C17 ---------------------------------------------------------------
\* C17: across apply-move and promote_to_piece calls, accepted or rejected, no
\* castling flag of either side changes from false to true.
C17_RightsNeverReturn ==
    [][(~aborted' /\ result'.op \in {"make_move", "promote_to_piece"})
           => \A color \in Color : \A j \in {0, 7} :
                  ~flag(game, color, j) => ~flag(game', color, j)]_vars

\* a move has just been accepted in a position where a flag was false that
\* the move before it had found true
C17_Witness ==
    /\ ~aborted
    /\ result.op = "make_move"
    /\ result.ret
    /\ is_some(game.previous_state)
    /\ is_some(unwrap(game.previous_state).previous_state)
    /\ \E color \in Color : \E j \in {0, 7} :
         /\ flag(unwrap(unwrap(game.previous_state).previous_state), color, j)
         /\ ~flag(unwrap(game.previous_state), color, j)
         /\ ~flag(game, color, j)

\* ---- C18 ---------------------------------------------------------------
\* C18: whenever a pending-promotion square is set, get-current-state returns
\* AwaitPromotion, whatever else holds of the position: no legal move for the
\* side to move, a half-move clock of 100 or more, insufficient material.
C18_PromotionMasksOutcome ==
    [][(~aborted' /\ result'.op = "get_state" /\ is_some(game.promotion_square))
           => result'.ret = <<"AwaitPromotion">>]_vars

\* get-current-state has answered AwaitPromotion in a position where the side
\* to move has no legal move
C18_Witness ==
    /\ ~aborted
    /\ result.op = "get_state"
    /\ result.ret = <<"AwaitPromotion">>
    /\ is_some(game.promotion_square)
    /\ num_of_legal_moves(game, game.turn).ret = 0

\* ---- C19 ---------------------------------------------------------------
\* how many pieces of a kind a side has
count_of(g, color, piece_type) ==
    Cardinality({sq \in Squares : g.board[sq] = Some(Piece(piece_type, color))})

\* the side has a lone king, king and one knight, king and one bishop, or
\* king and two knights
bare(g, color) ==
    /\ count_of(g, color, "King") = 1
    /\ \A t \in {"Pawn", "Rook", "Queen"} : count_of(g, color, t) = 0
    /\ <<count_of(g, color, "Knight"), count_of(g, color, "Bishop")>>
           \in {<<0, 0>>, <<1, 0>>, <<0, 1>>, <<2, 0>>}

\* the number of legal moves of the side to move
mover_moves(g) == num_of_legal_moves(g, g.turn).ret

\* get-current-state has answered with no promotion pending
StateGiven == ~aborted' /\ result'.op = "get_state" /\ is_none(game.promotion_square)

\* C19: with no promotion pending, get-current-state answers checkmate or
\* stalemate when the side to move has no legal move, whatever the half-move
\* clock; when it has one, the answer is Draw(FiftyMoveRule) if and only if
\* the clock is at least 100, insufficient material or not.
C19_FiftyMoveRule ==
    [][StateGiven =>
          IF mover_moves(game) = 0
          THEN result'.ret \in {<<"Win", "Checkmate", opposite(game.turn)>>,
                                <<"Draw", "Stalemate">>}
          ELSE result'.ret = <<"Draw", "FiftyMoveRule">> <=> u32_ge(game.half_moves, 100)]_vars

\* get-current-state has answered Draw(FiftyMoveRule) for a position in which
\* neither side has mating material
C19_Witness ==
    /\ ~aborted
    /\ result.op = "get_state"
    /\ result.ret = <<"Draw", "FiftyMoveRule">>
    /\ u32_ge(game.half_moves, 100)
    /\ bare(game, "White") /\ bare(game, "Black")
    /\ mover_moves(game) > 0

\* ---- C20 ---------------------------------------------------------------
\* C20: with no promotion pending, a legal move for the side to move and a
\* half-move clock below 100, get-current-state answers
\* Draw(InsufficientMaterial) if and only if each side has a lone king, king
\* and one knight, king and one bishop, or king and two knights, wherever the
\* pieces stand; otherwise it answers InProgress.
C20_InsufficientMaterial ==
    [][(StateGiven /\ ~u32_ge(game.half_moves, 100) /\ mover_moves(game) > 0)
           => result'.ret = IF bare(game, "White") /\ bare(game, "Black")
                            THEN <<"Draw", "InsufficientMaterial">>
                            ELSE <<"InProgress">>]_vars

\* get-current-state has answered Draw(InsufficientMaterial) for a position in
\* which a knight comes before its king in the scan of the board
C20_Witness ==
    /\ ~aborted
    /\ result.op = "get_state"
    /\ result.ret = <<"Draw", "InsufficientMaterial">>
    /\ \E color \in Color : pieces_from(game.board, color, 1) = <<"Knight", "King">>

\* ---- C21 ---------------------------------------------------------------
\* promote_to_piece has been called
Promoting == result'.op = "promote_to_piece"

\* the board with the piece on sq turned into one of the given kind
Promoted(board, sq, piece_type) ==
    [board EXCEPT ![sq] = Some(Piece(piece_type, unwrap(board[sq]).color))]

\* C21: with a pending-promotion square set, promote_to_piece(kind) returns
\* true, puts a piece of that kind and of the pawn's color on the square and
\* clears the pending square; with none set, as after a first call, it
\* returns false and leaves the board as it is.
C21_PromoteOnce ==
    [][Promoting =>
          /\ ~aborted'
          /\ IF is_some(game.promotion_square)
             THEN /\ result'.ret = TRUE
                  /\ is_some(game.board[unwrap(game.promotion_square)])
                  /\ game'.board = Promoted(game.board, unwrap(game.promotion_square),
                                            result'.piece_type)
                  /\ is_none(game'.promotion_square)
             ELSE /\ result'.ret = FALSE
                  /\ game'.board = game.board
                  /\ is_none(game'.promotion_square)]_vars

\* ---- C22 ---------------------------------------------------------------
\* the pawn of from reaches its last rank on to
ReachesLastRank(g, from, to) ==
    /\ is_some(g.board[from])
    /\ piece_on(g, from).piece_type = "Pawn"
    /\ to[1] = (IF piece_on(g, from).color = "White" THEN 0 ELSE 7)

\* C22: when an accepted move brings a pawn to its last rank, with
\* auto-promote the destination holds a queen of the pawn's color and no
\* promotion is pending; without it the destination holds the pawn, the
\* pending-promotion square is the destination and get-current-state answers
\* AwaitPromotion.
C22_LastRank ==
    [][(AcceptedMove /\ ReachesLastRank(game, result'.from, result'.to))
           => IF result'.auto_promote
              THEN /\ game'.board[result'.to] =
                          Some(Piece("Queen", piece_on(game, result'.from).color))
                   /\ is_none(game'.promotion_square)
              ELSE /\ game'.board[result'.to] = game.board[result'.from]
                   /\ game'.promotion_square = Some(result'.to)
                   /\ get_state(game').ret = <<"AwaitPromotion">>]_vars

\* a pawn has just reached its last rank by a move made without auto-promote
C22_Witness ==
    /\ ~aborted
    /\ result.op = "make_move"
    /\ result.ret
    /\ ~result.auto_promote
    /\ is_some(game.previous_state)
    /\ ReachesLastRank(unwrap(game.previous_state), result.from, result.to)
    /\ game.promotion_square = Some(result.to)

\* ---- C23 ---------------------------------------------------------------
\* apply-move is to answer no: from is empty, holds a piece of the side not to
\* move, or to is not among the legal destinations of the piece on from
Refusable(g, from, to) ==
    \/ is_none(g.board[from])
    \/ piece_on(g, from).color # g.turn
    \/ to \notin Range(get_legal_moves_array_index(g, from).moves)

\* what a refused move is to leave alone
Position(g) ==
    <<g.board, g.turn, g.kingside_castle, g.queenside_castle, g.en_passant_square,
      g.half_moves, g.full_moves, g.captures, g.previous_state>>

\* C23: for on-board squares from and to, apply-move returns Ok(false) when
\* from is empty, holds a piece of the side not to move, or to is not a legal
\* destination of the piece on from, and then board, side to move, castling
\* rights, en-passant target, both clocks, capture log and undo history are
\* as before; otherwise it returns Ok(true).
C23_RefusedMoveChangesNothing ==
    [][(result'.op = "make_move")
           => /\ ~aborted'
              /\ IF Refusable(game, result'.from, result'.to)
                 THEN result'.ret = FALSE /\ Position(game') = Position(game)
                 ELSE result'.ret = TRUE]_vars

\* ---- C24 ---------------------------------------------------------------
\* exactly two characters, a file letter a-h and a rank digit 1-8
WellFormed(notation) ==
    /\ Len(notation) = 2
    /\ notation[1] \in {"a", "b", "c", "d", "e", "f", "g", "h"}
    /\ notation[2] \in {"1", "2", "3", "4", "5", "6", "7", "8"}

\* C24: alg_notation_to_indx returns Err for every string that is not a file
\* letter a-h followed by a rank digit 1-8, and make_move given such a string
\* for from or to returns Err, without aborting and with the position as it was.
C24_IllFormedSquareIsErr ==
    [][/\ (result'.op = "alg_notation_to_indx" /\ ~WellFormed(result'.notation))
            => ~aborted' /\ result'.err
       /\ (/\ result'.op = "make_move"
           /\ ~(WellFormed(result'.notation[1]) /\ WellFormed(result'.notation[2])))
            => ~aborted' /\ result'.err /\ game' = game]_vars

\* ---- C25 ---------------------------------------------------------------
\* a non-empty string of decimal digits
IsNumber(field) ==
    field # <<>> /\ \A k \in 1..Len(field) : is_some(to_digit(field[k]))

\* the squares a placement row describes
RECURSIVE squares_of(_)
squares_of(row) ==
    IF row = <<>> THEN 0
    ELSE (IF is_some(to_digit(Head(row))) THEN unwrap(to_digit(Head(row))) ELSE 1)
         + squares_of(Tail(row))

\* an unknown piece letter, more than 8 squares in a rank or more than 8 ranks
BadPlacement(rows) ==
    \/ Len(rows) > 8
    \/ \E k \in 1..Len(rows) :
         \/ squares_of(rows[k]) > 8
         \/ \E c \in 1..Len(rows[k]) :
              is_none(to_digit(rows[k][c])) /\ is_none(get_piece(rows[k][c]))

\* the string is malformed in one of the ways of the claim
Malformed(fields) ==
    \/ Len(fields) < 6
    \/ BadPlacement(split(fields[1], "/", <<>>))
    \/ fields[2] \notin {<<"w">>, <<"b">>}
    \/ \E k \in 1..Len(fields[3]) : fields[3][k] \notin {"K", "Q", "k", "q", "-"}
    \/ (fields[4] # <<"-">> /\ ~WellFormed(fields[4]))
    \/ ~IsNumber(fields[5])
    \/ ~IsNumber(fields[6])

\* C25: from_fen on a malformed string - an unknown piece letter, more than 8
\* squares in a rank, more than 8 ranks, a missing field, an active side other
\* than w or b, a castling character outside KQkq-, an en-passant field that is
\* neither - nor a square, a clock that is no non-negative integer - returns
\* Err: it neither aborts nor returns a position.
C25_MalformedIsErr ==
    (result.op = "from_fen" /\ Malformed(split_whitespace(script.fen)))
        => ~aborted /\ ~result.ret

\* ---- C26 ---------------------------------------------------------------
\* the rank or the file index is outside 0..7
OffBoard(indx) == ~(indx[1] \in {0} \X (0..7) /\ indx[2] \in {0} \X (0..7))

\* C26: asked for the piece or the moves of a square whose rank or file index
\* is outside 0..7, piece_at_array_index and get_legal_moves_array_index
\* return Err and leave the position as it was; asked for the moves of an
\* empty square of the board, get_legal_moves_array_index returns Ok with no
\* move.
C26_OffBoardIsErr ==
    [][(result'.op \in {"piece_at_array_index", "get_legal_moves_array_index"})
           => IF OffBoard(result'.indx)
              THEN ~aborted' /\ result'.err /\ game' = game
              ELSE (/\ result'.op = "get_legal_moves_array_index"
                    /\ is_none(game.board[<<result'.indx[1][2], result'.indx[2][2]>>]))
                       => ~aborted' /\ ~result'.err /\ result'.ret = <<>>]_vars

\* ---- C27 ---------------------------------------------------------------
\* the pieces of a color that stood on before and stand there no more on after
gone(before, after, color) ==
    {sq \in Squares : /\ is_some(before[sq])
                      /\ unwrap(before[sq]).color = color
                      /\ after[sq] # before[sq]}

\* the opposing pieces the moves of color have removed from the board, in
\* order, along the moves that led from the constructed position to g
RECURSIVE removed_by(_, _)
removed_by(g, color) ==
    IF is_none(g.previous_state) THEN <<>>
    ELSE LET prev == unwrap(g.previous_state)
             lost == gone(prev.board, g.board, opposite(color))
         IN  removed_by(prev, color)
                 \o (IF prev.turn = color /\ lost # {}
                     THEN <<unwrap(prev.board[CHOOSE sq \in lost : TRUE])>>
                     ELSE <<>>)

\* C27: after any sequence of accepted moves on a constructed position,
\* get-captures(side) is the sequence, in order, of the opposing pieces that
\* side's moves have removed from the board, a pawn taken en passant included.
C27_CaptureLog ==
    (~aborted /\ result.op = "get_captures")
        => result.ret = removed_by(game, result.color)

\* ---- C28 ---------------------------------------------------------------
\* C28: in every state the public operations reach, in_check(color) is true
\* exactly when an opposing piece bears on the square of the king of that color
\* on the current board; this includes the states left by undo_last_move, by a
\* legal-move query, by a refused make_move and by promote_to_piece.
C28_InCheckIsCurrent ==
    ~aborted =>
        \A color \in Color : in_check(game, color) <=> king_attacked(game, color)

\* ---- C29 ---------------------------------------------------------------
\* the number of kings of one color on a board
kings(board, color) == Cardinality(king_squares(board, color))

\* C29: in every position reached from a constructed position with one king
\* per side by accepted moves, promotion choices and undos, each side has
\* exactly one king on the board.
C29_OneKingEach ==
    ~aborted => \A color \in Color : kings(game.board, color) = 1

\* ---- C30 ---------------------------------------------------------------
\* the step is a get_all_legal_moves call that returned
AllLegalAsked == ~aborted' /\ result'.op = "get_all_legal_moves"

\* C30: get_all_legal_moves(color) returns a map whose keys are exactly the
\* squares holding a piece of that color, a piece with no legal move being
\* present with an empty list, and whose value at each key is what
\* get_legal_moves answers for that square in the position asked about.
C30_AllLegalMap ==
    [][AllLegalAsked =>
          result'.ret =
              { <<sq, get_legal_moves_array_index(game, sq).moves>> :
                    sq \in occupied_by(game.board, result'.color) }]_vars

\* ---- C31 ---------------------------------------------------------------
\* C31: after every public operation that completes, the cached attacked-square
\* set of each side has the members of the attack set computed from the
\* current board.
C31_CacheIsCurrent ==
    ~aborted =>
        \A color \in Color : get_attacked_squares(game, color) = attacks_of(game, color)

\* ---- C32 ---------------------------------------------------------------
\* the step is a call of get_legal_moves or of get_all_legal_moves
LegalMovesAsked == result'.op \in {"get_legal_moves", "get_all_legal_moves"}

\* C32: a call of get_legal_moves or get_all_legal_moves that returns leaves the
\* board, the side to move, the castling rights, the en-passant target, both
\* clocks, the capture log and the undo chain as they were before the call.
C32_QueryRestores ==
    [][(LegalMovesAsked /\ ~aborted') =>
          /\ Restored(game, game')
          /\ game'.previous_state = game.previous_state]_vars

\* a query has answered with at least one destination, each of which was
\* simulated and taken back, on a position that has a move to undo
C32_Witness ==
    /\ ~aborted
    /\ result.op = "get_legal_moves"
    /\ result.ret # <<>>
    /\ is_some(game.previous_state)

\* ---- C33 ---------------------------------------------------------------
\* n successive calls of undo_last_move
RECURSIVE undone(_, _)
undone(g, n) == IF n = 0 THEN g ELSE undone(undo_last_move(g), n - 1)

\* the position the script was constructed from
Constructed0 == from_fen(script.fen).game

\* as many undos as there are accepted moves not yet undone give back the
\* constructed position, and one more changes nothing
UndoReachesStart(u) ==
    /\ Restored(Constructed0, u)
    /\ is_none(u.previous_state)
    /\ undo_last_move(u) = u

\* an accepted move puts the position it was applied to on top of the chain; an
\* undo takes the top off; any other call that returns leaves the chain alone
UndoChainStep ==
    IF AcceptedMove
    THEN /\ Restored(game, undo_last_move(game'))
         /\ undo_last_move(game').previous_state = game.previous_state
    ELSE IF result'.op = "undo_last_move"
    THEN IF is_none(game.previous_state)
         THEN game' = game
         ELSE /\ Restored(unwrap(game.previous_state), game')
              /\ game'.previous_state = unwrap(game.previous_state).previous_state
    ELSE ~aborted' => game'.previous_state = game.previous_state

\* C33: undo chains to any depth: the i-th successive undo_last_move after k
\* accepted moves, with queries and refused moves in between, gives the board,
\* turn, rights, en-passant target, clocks and capture log of the position
\* before the (k-i+1)-th accepted move; k undos give the constructed position
\* and a further undo, or an undo on a fresh position, changes nothing.
C33_UndoChain ==
    /\ [](~aborted => UndoReachesStart(undone(game, Len(played))))
    /\ [][UndoChainStep]_vars

\* an undo has taken back an accepted move and at least two more accepted
\* moves remain on the chain, the constructed position at its bottom
C33_Witness ==
    /\ ~aborted
    /\ result.op = "undo_last_move"
    /\ is_some(result.undone)
    /\ Len(played) >= 2
    /\ is_some(undo_last_move(game).previous_state)
    /\ UndoReachesStart(undone(game, Len(played)))

\* ---- C34 ---------------------------------------------------------------
\* m = n + 1 between the numbers two u32s hold: nothing is one more than
\* u32::MAX
OneMore(m, n) == n # u32_MAX /\ m = u32_wrapping_succ(n)

\* the step is a make_move call that returned Ok(false)
RefusedMove == ~aborted' /\ result'.op = "make_move" /\ ~result'.err /\ ~result'.ret

\* C34: after an accepted move the half-move clock is 0 if the piece moved is
\* a pawn or the destination square held a piece, and otherwise one more than
\* it was; a refused move leaves it as it was.
C34_HalfMoveClock ==
    [][/\ AcceptedMove =>
              IF \/ piece_on(game, result'.from).piece_type = "Pawn"
                 \/ is_some(game.board[result'.to])
              THEN game'.half_moves = 0
              ELSE OneMore(game'.half_moves, game.half_moves)
       /\ RefusedMove => game'.half_moves = game.half_moves]_vars

\* ---- C35 ---------------------------------------------------------------
\* C35: an accepted move is made by the side to move, passes the move to the
\* other side, and adds 1 to the full-move counter if Black made it and nothing
\* if White did; a refused move changes neither the side to move nor the
\* counter, so the movers of consecutive accepted moves alternate.
C35_TurnAndFullMoves ==
    [][/\ AcceptedMove =>
              /\ piece_on(game, result'.from).color = game.turn
              /\ game'.turn = opposite(game.turn)
              /\ IF game.turn = "Black"
                 THEN OneMore(game'.full_moves, game.full_moves)
                 ELSE game'.full_moves = game.full_moves
       /\ RefusedMove =>
              /\ game'.turn = game.turn
              /\ game'.full_moves = game.full_moves]_vars

\* ---- C36 ---------------------------------------------------------------
\* the directions a piece that is not a pawn moves in, and how far
Directions(piece_type) ==
    CASE piece_type = "Rook" -> Range(rook_move_directions)
      [] piece_type = "Bishop" -> Range(bishop_move_directions)
      [] piece_type = "Knight" -> Range(knight_move_directions)
      [] OTHER -> Range(queen_move_directions)

Reach(piece_type) == IF piece_type \in {"Knight", "King"} THEN 1 ELSE 8

\* the first occupied square met from (i, j) in direction d within n steps
RECURSIVE first_met(_, _, _, _, _)
first_met(board, i, j, d, n) ==
    IF n = 0 \/ ~is_valid_pos(i + d[1], j + d[2]) THEN None
    ELSE IF is_some(board[<<i + d[1], j + d[2]>>]) THEN Some(<<i + d[1], j + d[2]>>)
    ELSE first_met(board, i + d[1], j + d[2], d, n - 1)

\* the squares of the own pieces that stand first in a direction of the piece on sq
first_friendly(g, sq) ==
    LET piece == unwrap(g.board[sq])
    IN  { unwrap(first_met(g.board, sq[1], sq[2], d, Reach(piece.piece_type))) :
              d \in { e \in Directions(piece.piece_type) :
                        LET met == first_met(g.board, sq[1], sq[2], e,
                                             Reach(piece.piece_type))
                        IN  is_some(met) /\ unwrap(g.board[unwrap(met)]).color = piece.color } }

\* the two squares diagonally ahead of a pawn, as far as they are on the board
pawn_diagonals(g, sq) ==
    LET ahead == IF unwrap(g.board[sq]).color = "White" THEN sq[1] - 1 ELSE sq[1] + 1
    IN  { <<ahead, sq[2] - 1>>, <<ahead, sq[2] + 1>> } \cap Squares

\* what the piece on sq is to report in attack-only mode
attack_report(g, sq) ==
    IF unwrap(g.board[sq]).piece_type = "Pawn" THEN pawn_diagonals(g, sq)
    ELSE Range(get_pseudo_legal_moves_for_square(g, sq[1], sq[2], FALSE).moves)
             \cup first_friendly(g, sq)

\* C36: in attack-only mode a pawn reports its on-board diagonal-forward
\* squares whatever stands on them and no push; the other pieces report what
\* they report in move mode and the first own piece met in each direction;
\* the attack set computed for a side is the union over its pieces.
C36_AttackMode ==
    ~aborted =>
        /\ \A sq \in Squares :
               is_some(game.board[sq]) =>
                   Range(get_pseudo_legal_moves_for_square(game, sq[1], sq[2], TRUE).moves)
                       = attack_report(game, sq)
        /\ \A color \in Color :
               attacks_of(game, color) =
                   UNION { attack_report(game, sq) : sq \in occupied_by(game.board, color) }

\* a move has been accepted, so the attack sets were computed, on a board where
\* a pawn has an empty square diagonally ahead and a piece that is not a pawn
\* has an own piece first in one of its directions
C36_Witness ==
    /\ ~aborted
    /\ result.op = "make_move"
    /\ result.ret
    /\ \E sq \in Squares :
           /\ is_some(game.board[sq])
           /\ unwrap(game.board[sq]).piece_type = "Pawn"
           /\ \E d \in pawn_diagonals(game, sq) : is_none(game.board[d])
    /\ \E sq \in Squares :
           /\ is_some(game.board[sq])
           /\ unwrap(game.board[sq]).piece_type # "Pawn"
           /\ first_friendly(game, sq) # {}

\* ---- C37 ---------------------------------------------------------------
\* the home rank of a color
HomeRank(color) == IF color = "White" THEN 7 ELSE 0

\* a king stands on from, and to is two files away on the same rank
TwoFileKingMove(g, from, to) ==
    /\ is_some(g.board[from])
    /\ piece_on(g, from).piece_type = "King"
    /\ to[1] = from[1]
    /\ to[2] \in {from[2] - 2, from[2] + 2}

\* the king on from stands on its start square and the rook of the wing that
\* to lies on stands on its corner
CastlingSetUp(g, from, to) ==
    LET color == piece_on(g, from).color
        corner == <<HomeRank(color), IF to[2] > from[2] THEN 7 ELSE 0>>
    IN  /\ from = <<HomeRank(color), 4>>
        /\ g.board[corner] = Some(Piece("Rook", color))

\* C37: a king move of two files is offered by get_legal_moves, and accepted by
\* make_move, only with the king on its start square and the rook of that wing
\* on its corner; an accepted move never takes a piece of the mover's own
\* color off the board.
C37_CastlingSetUp ==
    [][/\ (~aborted' /\ result'.op = "get_legal_moves") =>
              \A k \in 1..Len(result'.ret) :
                  TwoFileKingMove(game, result'.pos, result'.ret[k]) =>
                      CastlingSetUp(game, result'.pos, result'.ret[k])
       /\ AcceptedMove =>
              /\ TwoFileKingMove(game, result'.from, result'.to) =>
                     CastlingSetUp(game, result'.from, result'.to)
              /\ Cardinality(occupied_by(game'.board, game.turn)) =
                     Cardinality(occupied_by(game.board, game.turn))]_vars

\* ---- C38 ---------------------------------------------------------------
\* a king stands on from, and to is two files towards the a-file
QueensideKingMove(g, from, to) == TwoFileKingMove(g, from, to) /\ to[2] = from[2] - 2

\* the squares on the b-, c- and d-file of the king's rank are empty
QueensidePathEmpty(g, from) == \A j \in 1..3 : is_none(g.board[<<from[1], j>>])

\* C38: a two-file king move towards the queen's rook is offered by
\* get_legal_moves, and accepted by make_move, only when the b-, c- and
\* d-file squares of the rank are all empty.
C38_QueensidePath ==
    [][/\ (~aborted' /\ result'.op = "get_legal_moves") =>
              \A k \in 1..Len(result'.ret) :
                  QueensideKingMove(game, result'.pos, result'.ret[k]) =>
                      QueensidePathEmpty(game, result'.pos)
       /\ AcceptedMove =>
              (QueensideKingMove(game, result'.from, result'.to) =>
                   QueensidePathEmpty(game, result'.from))]_vars

\* ---- C39 ---------------------------------------------------------------
\* the step is an undo_last_move that takes back the move that brought a pawn
\* to the square a promotion is pending on
UndoesPending ==
    /\ result'.op = "undo_last_move"
    /\ is_some(result'.undone)
    /\ is_some(game.promotion_square)
    /\ unwrap(result'.undone)[2] = unwrap(game.promotion_square)
    /\ is_some(game.board[unwrap(game.promotion_square)])
    /\ piece_on(game, unwrap(game.promotion_square)).piece_type = "Pawn"
    /\ game'.board[unwrap(result'.undone)[1]] = game.board[unwrap(game.promotion_square)]

\* C39: once the move that left a promotion pending is undone, no promotion is
\* pending: get_state answers what it answered before the move, and
\* promote_to_piece returns false and changes no square.
C39_UndoClearsPending ==
    [][(~aborted' /\ UndoesPending) =>
          /\ ~get_state(game').panic
          /\ get_state(game').ret = get_state(unwrap(game.previous_state)).ret
          /\ \A piece_type \in PieceType :
                 /\ ~promote_to_piece(game', piece_type).panic
                 /\ promote_to_piece(game', piece_type).ret = FALSE
                 /\ promote_to_piece(game', piece_type).game.board = game'.board]_vars

====
